---- MODULE Spec2Model ----
(***************************************************************************)
(* A model of the calculation engine of aurelius/functional: the DCF       *)
(* valuation model (dcf.py) and the risk analytics (risk.py).              *)
(*                                                                         *)
(* Numbers.  Python floats are modelled by exact rationals <<n, d>> with   *)
(* d > 0 and gcd(n, d) = 1, so a formula of the code is evaluated without  *)
(* floating-point error and round() is the only place where a value        *)
(* changes.  Money amounts (statement lines, debt, cash, market cap) and   *)
(* share counts are held in units of 10^7, so that the code's              *)
(* round(x / 1e9, 2) rounds to a whole unit and round(x, 0) rounds to 7    *)
(* decimals of a unit.  Rates and prices are plain rationals.              *)
(***************************************************************************)
EXTENDS Integers, Sequences, FiniteSets, TLC

(***************************************************************************)
(* Local names.  With(value, LAMBDA name : body) is                        *)
(* LET name == value IN body: the statement `name = value` of the code     *)
(* followed by the statements that use the name.                           *)
(***************************************************************************)
With(value, Body(_)) == Body(value)

(***************************************************************************)
(* Rational arithmetic: Python's float operators.                          *)
(***************************************************************************)
Abs(n) == IF n < 0 THEN -n ELSE n

RECURSIVE GCD(_, _)
GCD(a, b) == IF b = 0 THEN a ELSE GCD(b, a % b)

\* The rational n/d in lowest terms with a positive denominator.
R(n, d) ==
    With(GCD(Abs(n), Abs(d)), LAMBDA g :
    With(IF d < 0 THEN -1 ELSE 1, LAMBDA s :
    << s * (n \div g), s * (d \div g) >>))

I(n) == << n, 1 >>
Zero == << 0, 1 >>
One == << 1, 1 >>

RAdd(x, y) ==
    With(GCD(x[2], y[2]), LAMBDA g :
    R(x[1] * (y[2] \div g) + y[1] * (x[2] \div g), (x[2] \div g) * y[2]))

RNeg(x) == << -x[1], x[2] >>
RSub(x, y) == RAdd(x, RNeg(y))

RMul(x, y) ==
    With(GCD(Abs(x[1]), y[2]), LAMBDA g1 :
    With(GCD(Abs(y[1]), x[2]), LAMBDA g2 :
    IF x[1] = 0 \/ y[1] = 0 THEN Zero
    ELSE << (x[1] \div g1) * (y[1] \div g2), (x[2] \div g2) * (y[2] \div g1) >>))

\* x / y for y # 0 (the callers raise ZeroDivisionError themselves when y = 0).
RDiv(x, y) == RMul(x, R(y[2], y[1]))

RLt(x, y) == RSub(x, y)[1] < 0
RLe(x, y) == RSub(x, y)[1] <= 0
RMin(x, y) == IF RLt(y, x) THEN y ELSE x
RAbs(x) == << Abs(x[1]), x[2] >>

RECURSIVE RPow(_, _)
RPow(x, k) == IF k = 0 THEN One ELSE RMul(x, RPow(x, k - 1))

RECURSIVE Pow10(_)
Pow10(k) == IF k = 0 THEN 1 ELSE 10 * Pow10(k - 1)

\* (10 * r) \div d and (10 * r) % d for 0 <= r < d, by ten additions (10 * r
\* itself may exceed the machine integer): << quotient, remainder >>.
RECURSIVE TimesTen(_, _, _, _, _)
TimesTen(r, d, n, q, acc) ==
    IF n = 0 THEN << q, acc >>
    ELSE IF acc >= d - r THEN TimesTen(r, d, n - 1, q + 1, acc - (d - r))
    ELSE TimesTen(r, d, n - 1, q, acc + r)

\* The first k decimal digits of r/d (0 <= r < d) as <<digits, remainder>>,
\* by long division.
RECURSIVE Digits(_, _, _, _)
Digits(r, d, k, acc) ==
    IF k = 0 THEN << acc, r >>
    ELSE With(TimesTen(r, d, 10, 0, 0), LAMBDA t :
         Digits(t[2], d, k - 1, acc * 10 + t[1]))

\* Python's round(x, k): to k decimals, ties to the even digit.
RoundTo(x, k) ==
    IF Pow10(k) % x[2] = 0 THEN x
    ELSE With(x[1] \div x[2], LAMBDA q :
         With(Digits(x[1] % x[2], x[2], k, 0), LAMBDA dg :
         With(q * Pow10(k) + dg[1], LAMBDA lo :
         With(\/ dg[2] > x[2] - dg[2]
              \/ (dg[2] = x[2] - dg[2] /\ lo % 2 = 1), LAMBDA up :
         R(IF up THEN lo + 1 ELSE lo, Pow10(k))))))

\* floor(sqrt(n)) for 0 <= n, by bisection on lo..hi with lo^2 <= n < (hi+1)^2.
RECURSIVE ISqrtIn(_, _, _)
ISqrtIn(n, lo, hi) ==
    IF lo >= hi THEN lo
    ELSE With((lo + hi + 1) \div 2, LAMBDA mid :
         IF mid * mid <= n THEN ISqrtIn(n, mid, hi) ELSE ISqrtIn(n, lo, mid - 1))

ISqrt(n) == ISqrtIn(n, 0, 46340)
IsSquare(n) == ISqrt(n) * ISqrt(n) = n

\* x ** (1 / m) for x > 0 and m in {1, 2}.  An exact root is returned as it
\* is; otherwise the root is taken to 4 decimals (the caller rounds
\* (root - 1) * 100 to 2 decimals, which reads no further digit).
Root(x, m) ==
    IF m = 1 THEN x
    ELSE IF IsSquare(x[1]) /\ IsSquare(x[2]) THEN << ISqrt(x[1]), ISqrt(x[2]) >>
    ELSE With((100000000 * x[1]) \div x[2], LAMBDA n :
         With(ISqrt(n), LAMBDA s :
         R(IF n - s * s > s THEN s + 1 ELSE s, 10000)))


(***************************************************************************)
(* Python values.  None and a key that a dict does not hold are values of  *)
(* their own; `x or y` and `if x` read Python's truthiness.                *)
(***************************************************************************)
NoneV == << "None" >>
Absent == << "absent" >>

IsNum(v) == Len(v) = 2
Truthy(v) == IsNum(v) /\ v[1] # 0
Or(v, w) == IF Truthy(v) THEN v ELSE w
\* dict.get(key, default)
Get(v, default) == IF v = Absent THEN default ELSE v

\* {"error": ...}: `ticker` says the result carries a "ticker" key, `names`
\* that the message itself holds the ticker.
Err(msg, ticker, names) ==
    [kind |-> "error", error |-> msg, ticker |-> ticker, names |-> names]
IsError(r) == r.kind = "error"

\* An exception raised in the body of a function.
Raised(msg) == [kind |-> "raised", error |-> msg]

\* A body without a handler: the exception leaves the function.
TryExcept_Unhandled(outcome) == outcome

\* try: ... except Exception as e: return {"error": str(e), "ticker": ticker}
TryExcept(outcome) ==
    IF outcome.kind = "raised" THEN Err(outcome.error, TRUE, FALSE)
    ELSE outcome

\* What a fetch does: it answers ("none"), or stock.history raises
\* ("history"), stock.info raises ("info"), or the statements of the
\* company raise ("statements").  An adapter record without the field answers.
Faults == { "none", "history", "info", "statements" }
Fault(a) == IF "fault" \in DOMAIN a THEN a.fault ELSE "none"

(***************************************************************************)
(* Class constants of DCFModel.                                            *)
(***************************************************************************)
RISK_FREE_RATE == R(45, 1000)
MARKET_RISK_PREMIUM == R(55, 1000)
DEFAULT_TERMINAL_GROWTH == R(25, 1000)
DEFAULT_TAX_RATE == R(21, 100)

(***************************************************************************)
(* get_historical_financials(ticker, years).  The adapter `a` holds what   *)
(* yf.Ticker(ticker) answers: a.income, the columns of the statements,     *)
(* most recent first, each [rev, oi, ocf, capex] (0 where the row or the   *)
(* cash-flow column is missing), a.interest, the first 'Interest Expense'  *)
(* cell, and a.info.                                                       *)
(***************************************************************************)
\* fcf = ocf - capex if ocf and capex else 0, with capex = abs(cell)
ColumnFCF(col) ==
    IF col.ocf # 0 /\ col.capex # 0 THEN col.ocf - Abs(col.capex) ELSE 0

\* operating margin in percent, round(.., 2); 0 when revenue <= 0 or no income
ColumnOpMargin(col) ==
    IF col.rev > 0 /\ col.oi # 0
    THEN RoundTo(RMul(R(col.oi, col.rev), I(100)), 2)
    ELSE Zero

Positive(v) == v[1] > 0

\* The growth between the two most recent positive revenues.
RevenueCAGR_TwoMostRecent(revenue) ==
    With(SelectSeq(revenue, Positive), LAMBDA revenues :
    IF Len(revenue) >= 2 /\ Len(revenues) >= 2
    THEN RoundTo(RMul(RSub(RDiv(revenues[1], revenues[2]), One), I(100)), 2)
    ELSE Zero)

\* revenue_cagr in percent: 0 unless two positive revenues are in the window
RevenueCAGR(revenue) ==
    With(SelectSeq(revenue, Positive), LAMBDA revenues :
    With(Len(revenues), LAMBDA n :
    IF Len(revenue) >= 2 /\ n >= 2
    THEN RoundTo(RMul(RSub(Root(RDiv(revenues[1], revenues[n]), n - 1), One),
                      I(100)), 2)
    ELSE Zero))

Min(a, b) == IF a < b THEN a ELSE b

\* The dictionary built from statements that are not empty.
HistoricalRecord(a, years) ==
    With(Min(years, Len(a.income)), LAMBDA n :
    With([i \in 1..n |-> I(a.income[i].rev)], LAMBDA revenue :
    [kind |-> "historical",
     revenue |-> revenue,
     operating_income |-> [i \in 1..n |-> I(a.income[i].oi)],
     free_cash_flow |-> [i \in 1..n |-> I(ColumnFCF(a.income[i]))],
     operating_margin |-> [i \in 1..n |-> ColumnOpMargin(a.income[i])],
     current_price |->
         Or(Get(a.info.currentPrice, NoneV),
            Get(a.info.regularMarketPrice, Zero)),
     shares_outstanding |-> Get(a.info.sharesOutstanding, Zero),
     market_cap |-> Get(a.info.marketCap, Zero),
     beta |-> Get(a.info.beta, One),
     total_debt |-> Get(a.info.totalDebt, Zero),
     total_cash |-> Get(a.info.totalCash, Zero),
     revenue_cagr |-> RevenueCAGR(revenue)]))

\* The error without the ticker in its message.
get_historical_financials_Unnamed(a, years) ==
    IF Fault(a) \in { "info", "statements" }
    THEN TryExcept(Raised("<exception>"))
    ELSE IF a.income = << >>
    THEN Err("No financial data", FALSE, FALSE)
    ELSE HistoricalRecord(a, years)

get_historical_financials(a, years) ==
    IF Fault(a) \in { "info", "statements" }
    THEN TryExcept(Raised("<exception>"))
    ELSE IF a.income = << >>
    THEN Err("No financial data for <ticker>", FALSE, TRUE)
    ELSE HistoricalRecord(a, years)

(***************************************************************************)
(* calculate_wacc(ticker, risk_free_rate, market_risk_premium, tax_rate).  *)
(* WaccLocals is the function's frame when it returns; calculate_wacc is   *)
(* the dictionary it returns.                                              *)
(***************************************************************************)
EquityWeight(market_cap, total_debt) ==
    IF Positive(RAdd(market_cap, total_debt))
    THEN RDiv(market_cap, RAdd(market_cap, total_debt))
    ELSE One

\* debt_weight = 1.0 in the else branch, as equity_weight.
DebtWeight_ElseOne(market_cap, total_debt) ==
    IF Positive(RAdd(market_cap, total_debt))
    THEN RDiv(total_debt, RAdd(market_cap, total_debt))
    ELSE One

DebtWeight(market_cap, total_debt) ==
    IF Positive(RAdd(market_cap, total_debt))
    THEN RDiv(total_debt, RAdd(market_cap, total_debt))
    ELSE Zero

\* The premium taken as the market return: rf + beta * (mrp - rf).
CostOfEquity_MarketReturn(rf, beta, mrp) == RAdd(rf, RMul(beta, RSub(mrp, rf)))

\* cost_of_equity = rf + (beta * mrp)
CostOfEquity(rf, beta, mrp) == RAdd(rf, RMul(beta, mrp))

\* The fallback without the credit spread.
CostOfDebt_NoSpread(total_debt, interest_expense, rf) ==
    IF Positive(total_debt) /\ Positive(interest_expense)
    THEN RDiv(interest_expense, total_debt)
    ELSE rf

\* interest_expense / total_debt if both are positive, else rf + 0.02
CostOfDebt(total_debt, interest_expense, rf) ==
    IF Positive(total_debt) /\ Positive(interest_expense)
    THEN RDiv(interest_expense, total_debt)
    ELSE RAdd(rf, R(2, 100))

WaccLocals(a, risk_free_rate, market_risk_premium, tax_rate) ==
    With(Or(risk_free_rate, RISK_FREE_RATE), LAMBDA rf :
    With(Or(market_risk_premium, MARKET_RISK_PREMIUM), LAMBDA mrp :
    With(Or(tax_rate, DEFAULT_TAX_RATE), LAMBDA tax :
    With(Or(Get(a.info.beta, One), One), LAMBDA beta :
    With(CostOfEquity(rf, beta, mrp), LAMBDA cost_of_equity :
    With(Or(Get(a.info.marketCap, Zero), Zero), LAMBDA market_cap :
    With(Or(Get(a.info.totalDebt, Zero), Zero), LAMBDA total_debt :
    With(IF a.income # << >> THEN I(Abs(a.interest)) ELSE Zero, LAMBDA interest_expense :
    With(CostOfDebt(total_debt, interest_expense, rf), LAMBDA cost_of_debt :
    With(EquityWeight(market_cap, total_debt), LAMBDA equity_weight :
    With(DebtWeight(market_cap, total_debt), LAMBDA debt_weight :
    With(RAdd(RMul(equity_weight, cost_of_equity),
              RMul(RMul(debt_weight, cost_of_debt), RSub(One, tax))), LAMBDA wacc :
    [rf |-> rf, mrp |-> mrp, tax |-> tax, beta |-> beta,
     cost_of_equity |-> cost_of_equity, cost_of_debt |-> cost_of_debt,
     market_cap |-> market_cap, total_debt |-> total_debt,
     interest_expense |-> interest_expense,
     equity_weight |-> equity_weight, debt_weight |-> debt_weight,
     wacc |-> wacc]))))))))))))

\* round(x * 100, k)
Pct(x, k) == RoundTo(RMul(x, I(100)), k)

calculate_wacc(a, risk_free_rate, market_risk_premium, tax_rate) ==
    IF Fault(a) \in { "info", "statements" }
    THEN TryExcept(Raised("<exception>"))
    ELSE
    With(WaccLocals(a, risk_free_rate, market_risk_premium, tax_rate), LAMBDA f :
    [kind |-> "wacc",
     wacc |-> Pct(f.wacc, 2),
     wacc_decimal |-> RoundTo(f.wacc, 4),
     cost_of_equity |-> Pct(f.cost_of_equity, 2),
     cost_of_debt |-> Pct(f.cost_of_debt, 2),
     cost_of_debt_after_tax |-> Pct(RMul(f.cost_of_debt, RSub(One, f.tax)), 2),
     beta |-> RoundTo(f.beta, 2),
     risk_free_rate |-> Pct(f.rf, 2),
     market_risk_premium |-> Pct(f.mrp, 2),
     tax_rate |-> Pct(f.tax, 2),
     equity_weight |-> Pct(f.equity_weight, 2),
     debt_weight |-> Pct(f.debt_weight, 2),
     market_cap |-> f.market_cap,
     total_debt |-> f.total_debt])


(***************************************************************************)
(* project_financials(ticker, years, revenue_growth_rates,                 *)
(* operating_margin_targets).  A list argument is [given, items]: None     *)
(* when not given.  ProjectLocals is the frame at the return, with the     *)
(* returned value in .ret.                                                 *)
(***************************************************************************)
NoList == [given |-> FALSE, items |-> << >>]
List(items) == [given |-> TRUE, items |-> items]

GrowthMultipliers == << One, R(85, 100), R(70, 100), R(55, 100), R(40, 100) >>
GrowthCaps == << R(30, 100), R(25, 100), R(20, 100), R(15, 100), R(10, 100) >>

\* [min(base_growth * m, cap), ...][:years]
DefaultGrowthRates(base_growth, years) ==
    [k \in 1..Min(years, 5) |->
        RMin(RMul(base_growth, GrowthMultipliers[k]), GrowthCaps[k])]

\* base_growth = historical.get("revenue_cagr", 10) / 100: the key is always set
BaseGrowth(historical) == RDiv(historical.revenue_cagr, I(100))

\* last_op_margin >= 0.30 for the compression.
DefaultMarginTargets_AtLeast(last_op_margin, years) ==
    IF RLe(R(30, 100), last_op_margin)
    THEN [k \in 1..years |-> RSub(last_op_margin, RMul(I(k - 1), R(1, 100)))]
    ELSE [k \in 1..years |-> RAdd(last_op_margin, RMul(I(k - 1), R(5, 1000)))]

\* last_op_margin -/+ i * step for i in range(years)
DefaultMarginTargets(last_op_margin, years) ==
    IF RLt(R(30, 100), last_op_margin)
    THEN [k \in 1..years |-> RSub(last_op_margin, RMul(I(k - 1), R(1, 100)))]
    ELSE [k \in 1..years |-> RAdd(last_op_margin, RMul(I(k - 1), R(5, 1000)))]

\* operating income over free cash flow.
FcfToOiRatio_Inverted(historical) ==
    IF Truthy(historical.operating_income[1]) /\ Truthy(historical.free_cash_flow[1])
    THEN RDiv(historical.operating_income[1], historical.free_cash_flow[1])
    ELSE R(80, 100)

\* the ratio of the latest year, or 0.80
FcfToOiRatio(historical) ==
    IF Truthy(historical.operating_income[1]) /\ Truthy(historical.free_cash_flow[1])
    THEN RDiv(historical.free_cash_flow[1], historical.operating_income[1])
    ELSE R(80, 100)

\* xs[i] if i < len(xs) else xs[-1], for the 0-based i = k - 1
ListAt(xs, k) == IF k <= Len(xs) THEN xs[k] ELSE xs[Len(xs)]

\* Every year grown from last_revenue: current_revenue is not carried on.
ProjectedRevenue_FromBase(last_revenue, rates, k) ==
    IF k = 0 THEN last_revenue
    ELSE RMul(last_revenue, RAdd(One, ListAt(rates, k)))

\* current_revenue after k passes of the loop
RECURSIVE ProjectedRevenue(_, _, _)
ProjectedRevenue(last_revenue, rates, k) ==
    IF k = 0 THEN last_revenue
    ELSE RMul(ProjectedRevenue(last_revenue, rates, k - 1),
              RAdd(One, ListAt(rates, k)))

ProjectedFCF(projected_revenue, op_margin, fcf_to_oi_ratio) ==
    RMul(RMul(projected_revenue, op_margin), fcf_to_oi_ratio)

ProjectLocals(a, years, revenue_growth_rates, operating_margin_targets) ==
    With(get_historical_financials(a, 3), LAMBDA historical :
    IF IsError(historical) THEN [ret |-> historical]
    ELSE IF historical.revenue = << >>
    THEN [ret |-> Err("No revenue data available", FALSE, FALSE)]
    ELSE
    With(historical.revenue[1], LAMBDA last_revenue :
    With(RDiv(historical.operating_margin[1], I(100)), LAMBDA last_op_margin :
    With(IF revenue_growth_rates.given
         THEN revenue_growth_rates.items
         ELSE DefaultGrowthRates(BaseGrowth(historical), years), LAMBDA rates :
    With(IF operating_margin_targets.given
         THEN operating_margin_targets.items
         ELSE DefaultMarginTargets(last_op_margin, years), LAMBDA margins :
    With(FcfToOiRatio(historical), LAMBDA fcf_to_oi_ratio :
    IF years >= 1 /\ (rates = << >> \/ margins = << >>)
    THEN [ret |-> TryExcept(Raised("list index out of range"))]
    ELSE
    With([k \in 1..years |-> ProjectedRevenue(last_revenue, rates, k)], LAMBDA revenue :
    With([k \in 1..years |-> ListAt(rates, k)], LAMBDA growth :
    With([k \in 1..years |-> ListAt(margins, k)], LAMBDA margin :
    With([k \in 1..years |->
             ProjectedFCF(revenue[k], margin[k], fcf_to_oi_ratio)], LAMBDA fcf :
    IF \E k \in 1..years : revenue[k] = Zero
    THEN [ret |-> TryExcept(Raised("float division by zero"))]
    ELSE [historical |-> historical,
          last_revenue |-> last_revenue,
          last_op_margin |-> last_op_margin,
          revenue_growth_rates |-> rates,
          operating_margin_targets |-> margins,
          fcf_to_oi_ratio |-> fcf_to_oi_ratio,
          growth |-> growth,
          op_margin |-> margin,
          projected_revenue |-> revenue,
          projected_fcf |-> fcf,
          ret |-> [kind |-> "projections",
                   base_revenue |-> last_revenue,
                   projection_years |-> years,
                   revenue |-> [k \in 1..years |-> RoundTo(revenue[k], 7)],
                   revenue_growth |-> [k \in 1..years |-> Pct(growth[k], 1)],
                   operating_income |->
                       [k \in 1..years |->
                           RoundTo(RMul(revenue[k], margin[k]), 7)],
                   operating_margin |->
                       [k \in 1..years |-> Pct(margin[k], 1)],
                   free_cash_flow |->
                       [k \in 1..years |-> RoundTo(fcf[k], 7)],
                   fcf_margin |->
                       [k \in 1..years |->
                           Pct(RDiv(fcf[k], revenue[k]), 1)]]]))))))))))

project_financials(a, years, revenue_growth_rates, operating_margin_targets) ==
    ProjectLocals(a, years, revenue_growth_rates, operating_margin_targets).ret


(***************************************************************************)
(* calculate_dcf(ticker, projection_years, revenue_growth_rates,           *)
(* operating_margin_targets, terminal_growth_rate, wacc_override), in the  *)
(* steps between which it asks the adapter again.                          *)
(***************************************************************************)
\* (1 + wacc) ** i: the first year is not discounted.
DiscountFactor_FromZero(wacc, i) == RPow(RAdd(One, wacc), i)

\* discount_factor = (1 + wacc) ** (i + 1) for the 0-based i
DiscountFactor(wacc, i) == RPow(RAdd(One, wacc), i + 1)

\* terminal_value = final_fcf * (1 + g) / (wacc - g), for wacc # g
TerminalValue(final_fcf, wacc, terminal_growth) ==
    RDiv(RMul(final_fcf, RAdd(One, terminal_growth)), RSub(wacc, terminal_growth))

\* pv_terminal = terminal_value / (1 + wacc) ** projection_years
PvTerminal(terminal_value, wacc, projection_years) ==
    RDiv(terminal_value, RPow(RAdd(One, wacc), projection_years))

\* enterprise_value without the terminal value.
EnterpriseValue_NoTerminal(total_pv_fcf, pv_terminal) == total_pv_fcf

EnterpriseValue(total_pv_fcf, pv_terminal) == RAdd(total_pv_fcf, pv_terminal)

EquityValue(enterprise_value, net_debt) == RSub(enterprise_value, net_debt)

\* equity_value / shares_outstanding if shares_outstanding and shares_outstanding > 0 else 0
IntrinsicValuePerShare(equity_value, shares_outstanding) ==
    IF Truthy(shares_outstanding) /\ Positive(shares_outstanding)
    THEN RDiv(equity_value, shares_outstanding)
    ELSE Zero

Upside(intrinsic_value_per_share, current_price) ==
    IF Truthy(current_price) /\ Positive(current_price)
    THEN RMul(RDiv(RSub(intrinsic_value_per_share, current_price), current_price),
              I(100))
    ELSE Zero

\* upside >= 10 and upside <= -10 at the thresholds.
ValuationStatus_Inclusive(upside) ==
    IF RLe(I(10), upside) THEN "UNDERVALUED"
    ELSE IF RLe(upside, I(-10)) THEN "OVERVALUED"
    ELSE "FAIRLY VALUED"

ValuationStatus(upside) ==
    IF RLt(I(10), upside) THEN "UNDERVALUED"
    ELSE IF RLt(upside, I(-10)) THEN "OVERVALUED"
    ELSE "FAIRLY VALUED"

\* From the terminal value to the return, for the frame f after the loop.
DcfValuation(f, projection_years) ==
    With(f.projections.free_cash_flow, LAMBDA fcfs :
    With(f.wacc, LAMBDA wacc :
    With(f.terminal_growth, LAMBDA g :
    With(f.historical, LAMBDA h :
    IF fcfs = << >> THEN [ret |-> TryExcept(Raised("list index out of range"))]
    ELSE IF wacc = g \/ RAdd(One, wacc) = Zero
    THEN [ret |-> TryExcept(Raised("float division by zero"))]
    ELSE IF ~IsNum(h.total_debt) \/ ~IsNum(h.total_cash)
    THEN [ret |-> TryExcept(Raised("unsupported operand type(s)"))]
    ELSE
    With(fcfs[Len(fcfs)], LAMBDA final_fcf :
    With(TerminalValue(final_fcf, wacc, g), LAMBDA terminal_value :
    With(PvTerminal(terminal_value, wacc, projection_years), LAMBDA pv_terminal :
    With(EnterpriseValue(f.total_pv_fcf, pv_terminal), LAMBDA enterprise_value :
    With(RSub(h.total_debt, h.total_cash), LAMBDA net_debt :
    With(EquityValue(enterprise_value, net_debt), LAMBDA equity_value :
    With(h.shares_outstanding, LAMBDA shares_outstanding :
    With(IntrinsicValuePerShare(equity_value, shares_outstanding), LAMBDA intrinsic_value_per_share :
    With(h.current_price, LAMBDA current_price :
    With(Upside(intrinsic_value_per_share, current_price), LAMBDA upside :
    IF ~IsNum(shares_outstanding) \/ ~IsNum(current_price)
    THEN [ret |-> TryExcept(Raised("unsupported operand type(s)"))]
    ELSE [final_fcf |-> final_fcf,
          terminal_value |-> terminal_value,
          pv_terminal |-> pv_terminal,
          enterprise_value |-> enterprise_value,
          net_debt |-> net_debt,
          equity_value |-> equity_value,
          shares_outstanding |-> shares_outstanding,
          intrinsic_value_per_share |-> intrinsic_value_per_share,
          current_price |-> current_price,
          upside |-> upside,
          ret |-> [kind |-> "valuation",
                   wacc |-> Pct(wacc, 2),
                   terminal_growth_rate |-> Pct(g, 2),
                   projection_years |-> projection_years,
                   wacc_components |-> f.wacc_data,
                   free_cash_flow |-> fcfs,
                   pv_free_cash_flow |-> f.pv_fcfs,
                   pv_of_fcfs |-> RoundTo(f.total_pv_fcf, 0),
                   terminal_value |-> RoundTo(terminal_value, 0),
                   pv_of_terminal_value |-> RoundTo(pv_terminal, 0),
                   enterprise_value |-> RoundTo(enterprise_value, 0),
                   net_debt |-> RoundTo(net_debt, 0),
                   equity_value |-> RoundTo(equity_value, 0),
                   shares_outstanding |-> RoundTo(shares_outstanding, 0),
                   intrinsic_value_per_share |->
                       RoundTo(intrinsic_value_per_share, 2),
                   current_price |-> RoundTo(current_price, 2),
                   upside_percent |-> RoundTo(upside, 1),
                   valuation_status |-> ValuationStatus(upside)]]))))))))))))))

\* pv_fcfs and total_pv_fcf after n passes of the discounting loop.
RECURSIVE DcfLoop(_, _, _)
DcfLoop(fcfs, wacc, n) ==
    IF n = 0 THEN [pv_fcfs |-> << >>, total_pv_fcf |-> Zero]
    ELSE With(DcfLoop(fcfs, wacc, n - 1), LAMBDA before :
         With(RDiv(fcfs[n], DiscountFactor(wacc, n - 1)), LAMBDA pv :
         [pv_fcfs |-> Append(before.pv_fcfs, RoundTo(pv, 7)),
          total_pv_fcf |-> RAdd(before.total_pv_fcf, pv)]))

\* calculate_dcf(ticker, ...) run in one piece on the adapter data a, for the
\* arguments d.
calculate_dcf(a, d) ==
    With(calculate_wacc(a, NoneV, NoneV, NoneV), LAMBDA wacc_data :
    With(Or(d.wacc_override, wacc_data.wacc_decimal), LAMBDA wacc :
    With(project_financials(a, d.years, d.revenue_growth_rates,
                            d.operating_margin_targets), LAMBDA projections :
    With(get_historical_financials(a, 1), LAMBDA historical :
    IF IsError(wacc_data) THEN wacc_data
    ELSE IF IsError(projections) THEN projections
    ELSE IF IsError(historical) THEN historical
    ELSE IF projections.free_cash_flow # << >> /\ RAdd(One, wacc) = Zero
    THEN TryExcept(Raised("float division by zero"))
    ELSE With(DcfLoop(projections.free_cash_flow, wacc,
                      Len(projections.free_cash_flow)), LAMBDA loop :
         DcfValuation([wacc_data |-> wacc_data,
                       wacc |-> wacc,
                       projections |-> projections,
                       historical |-> historical,
                       terminal_growth |->
                           Or(d.terminal_growth_rate,
                              DEFAULT_TERMINAL_GROWTH),
                       pv_fcfs |-> loop.pv_fcfs,
                       total_pv_fcf |-> loop.total_pv_fcf],
                      d.years).ret)))))


(***************************************************************************)
(* sensitivity_analysis(ticker, wacc_range, growth_range, steps).          *)
(***************************************************************************)
\* np.linspace(range[0], range[1], steps) for steps >= 0
Linspace(range, steps) ==
    [j \in 1..steps |->
        IF steps = 1 THEN range[1]
        ELSE RAdd(range[1],
                  RMul(R(j - 1, steps - 1), RSub(range[2], range[1])))]

\* sum(fcf / ((1 + wacc) ** (i + 1)) for i, fcf in enumerate(fcfs)), 1 + wacc # 0
RECURSIVE SumPvFcf(_, _, _)
SumPvFcf(fcfs, wacc, n) ==
    IF n = 0 THEN Zero
    ELSE RAdd(SumPvFcf(fcfs, wacc, n - 1),
              RDiv(fcfs[n], DiscountFactor(wacc, n - 1)))

\* Only the division by zero is guarded: wacc != growth.
CellPvTerminal_UnlessEqual(final_fcf, wacc, growth) ==
    IF wacc # growth
    THEN RDiv(TerminalValue(final_fcf, wacc, growth), RPow(RAdd(One, wacc), 5))
    ELSE Zero

\* pv_tv = tv / ((1 + wacc) ** 5) if wacc > growth else 0
CellPvTerminal(final_fcf, wacc, growth) ==
    IF RLt(growth, wacc)
    THEN RDiv(TerminalValue(final_fcf, wacc, growth), RPow(RAdd(One, wacc), 5))
    ELSE Zero

\* per_share = equity / shares_outstanding if shares_outstanding else 0
CellPerShare(equity, shares_outstanding) ==
    IF Truthy(shares_outstanding) THEN RDiv(equity, shares_outstanding) ELSE Zero

\* The body of the inner loop: round(per_share, 2)
SensitivityCell(fcfs, wacc, growth, net_debt, shares_outstanding) ==
    With(SumPvFcf(fcfs, wacc, Len(fcfs)), LAMBDA pv_fcf :
    With(CellPvTerminal(fcfs[Len(fcfs)], wacc, growth), LAMBDA pv_tv :
    With(RAdd(pv_fcf, pv_tv), LAMBDA ev :
    With(RSub(ev, net_debt), LAMBDA equity :
    RoundTo(CellPerShare(equity, shares_outstanding), 2)))))


(***************************************************************************)
(* RiskAnalytics (risk.py).  The adapter `a` holds what yf.Ticker(ticker)  *)
(* answers: a.closes, the closing prices of stock.history(period), oldest  *)
(* first, and a.info.  A Series is the sequence of its values; NaN and the *)
(* infinities are values of their own.                                     *)
(***************************************************************************)
TRADING_DAYS == 252
RiskAnalytics_RISK_FREE_RATE == R(45, 1000)

NaN == << "nan" >>
Inf == << "inf" >>
NegInf == << "-inf" >>

\* round(x, k) of a float that may be NaN or infinite
RoundF(x, k) == IF IsNum(x) THEN RoundTo(x, k) ELSE x

\* hist['Close'].pct_change().dropna() for positive prices
PctChange(closes) ==
    [i \in 1..(Len(closes) - 1) |->
        RSub(R(closes[i + 1], closes[i]), One)]

\* The returns of the closes at hand, whether the fetch raised or not.
get_returns_OfStaleData(a) ==
    IF a.closes = << >> THEN << >> ELSE PctChange(a.closes)

\* get_returns(ticker, period): empty when the history is empty
\* or the fetch raises (Fault(a) = "history": the except clause answers an
\* empty Series)
get_returns(a) ==
    IF Fault(a) = "history" \/ a.closes = << >> THEN << >>
    ELSE PctChange(a.closes)

\* s[lo] + ... + s[hi], added by halves (the sum of exact values does not
\* depend on the order, and a long Series stays within the evaluator's depth)
RECURSIVE SumRange(_, _, _)
SumRange(s, lo, hi) ==
    IF hi < lo THEN Zero
    ELSE IF lo = hi THEN s[lo]
    ELSE With((lo + hi) \div 2, LAMBDA mid :
         RAdd(SumRange(s, lo, mid), SumRange(s, mid + 1, hi)))

\* Series.sum()
Sum(s) == SumRange(s, 1, Len(s))

\* Series.mean()
Mean(s) == IF s = << >> THEN NaN ELSE RDiv(Sum(s), I(Len(s)))

SumSqDev(s, m) ==
    Sum([i \in 1..Len(s) |-> RMul(RSub(s[i], m), RSub(s[i], m))])

\* Series.var(): the sample variance (ddof = 1), NaN below two values
Variance(s) ==
    IF Len(s) < 2 THEN NaN ELSE RDiv(SumSqDev(s, Mean(s)), I(Len(s) - 1))

\* The largest power of ten k <= 10^4 with n * k * k a machine integer.
SqrtScale(n) ==
    IF n <= 21 THEN 10000
    ELSE IF n <= 2147 THEN 1000
    ELSE IF n <= 214748 THEN 100
    ELSE IF n <= 21474836 THEN 10
    ELSE 1

\* The square root of x >= 0.  An exact root is returned as it is; otherwise
\* sqrt(n / d) = sqrt(n * d) / d is taken to the nearest 1 / (d * k), with
\* as many digits k as the machine integer holds.
Sqrt(x) ==
    IF IsSquare(x[1]) /\ IsSquare(x[2]) THEN << ISqrt(x[1]), ISqrt(x[2]) >>
    ELSE With(SqrtScale(x[1] * x[2]), LAMBDA k :
         With(x[1] * x[2] * k * k, LAMBDA n :
         With(ISqrt(n), LAMBDA s :
         R(IF n - s * s > s THEN s + 1 ELSE s, x[2] * k))))

\* Series.std()
Std(s) == IF Len(s) < 2 THEN NaN ELSE Sqrt(Variance(s))

\* Series.std() * np.sqrt(TRADING_DAYS), as one root
AnnualStd(s) ==
    IF Len(s) < 2 THEN NaN ELSE Sqrt(RMul(Variance(s), I(TRADING_DAYS)))

RECURSIVE Insert(_, _)
Insert(x, s) ==
    IF s = << >> THEN << x >>
    ELSE IF RLe(x, s[1]) THEN << x >> \o s
    ELSE << s[1] >> \o Insert(x, Tail(s))

RECURSIVE Sorted(_)
Sorted(s) == IF s = << >> THEN << >> ELSE Insert(s[1], Sorted(Tail(s)))

\* np.percentile(s, q) for a non-empty s and 0 <= q <= 100: linear
\* interpolation between the two order statistics around (n - 1) * q / 100
Percentile(s, q) ==
    With(Sorted(s), LAMBDA sorted :
    With(RMul(I(Len(s) - 1), RDiv(q, I(100))), LAMBDA h :
    With(h[1] \div h[2], LAMBDA lo :
    With(RSub(h, I(lo)), LAMBDA t :
    IF lo + 1 >= Len(s) THEN sorted[Len(s)]
    ELSE RAdd(sorted[lo + 1],
              RMul(t, RSub(sorted[lo + 2], sorted[lo + 1])))))))

\* stats.norm.ppf(p) to 4 decimals, for the levels of the model
NormPpf(p) ==
    IF p = R(1, 2) THEN Zero
    ELSE IF p = R(5, 100) THEN R(-16449, 10000)
    ELSE R(-23263, 10000)

\* s[s <= x]
AtOrBelow(s, x) == SelectSeq(s, LAMBDA r : RLe(r, x))

\* s[s < x]
Below(s, x) == SelectSeq(s, LAMBDA r : RLt(r, x))

(***************************************************************************)
(* calculate_var(ticker, confidence, holding_period, method, period).      *)
(***************************************************************************)
\* var_pct of the historical method
HistoricalVar(returns, confidence) ==
    Percentile(returns, RMul(RSub(One, confidence), I(100)))

\* var_pct of the parametric method
ParametricVar(returns, confidence) ==
    With(Mean(returns), LAMBDA mean :
    With(Std(returns), LAMBDA std :
    With(NormPpf(RSub(One, confidence)), LAMBDA z_score :
    IF IsNum(std) THEN RAdd(mean, RMul(z_score, std)) ELSE NaN)))

\* abs(cvar_pct) * np.sqrt(holding_period) * 100
ExpectedShortfall(returns, confidence, holding_period) ==
    With(Mean(AtOrBelow(returns, HistoricalVar(returns, confidence))), LAMBDA cvar_pct :
    RMul(RMul(RAbs(cvar_pct), Sqrt(I(holding_period))), I(100)))

VarLocals(a, confidence, holding_period, method) ==
    With(get_returns(a), LAMBDA returns :
    With(Or(a.info.currentPrice,
            Get(a.info.regularMarketPrice, I(100))), LAMBDA current_price :
    With(IF method = "historical"
         THEN HistoricalVar(returns, confidence)
         ELSE ParametricVar(returns, confidence), LAMBDA var_pct :
    With(IF IsNum(var_pct) THEN RMul(var_pct, Sqrt(I(holding_period)))
         ELSE NaN, LAMBDA var_pct_adjusted :
    [returns |-> returns,
     current_price |-> current_price,
     var_pct |-> var_pct,
     var_pct_adjusted |-> var_pct_adjusted,
     cvar_pct |-> Mean(AtOrBelow(returns, HistoricalVar(returns, confidence)))]))))

calculate_var(a, confidence, holding_period, method) ==
    IF get_returns(a) = << >> THEN Err("No data for <ticker>", FALSE, TRUE)
    ELSE
    With(VarLocals(a, confidence, holding_period, method), LAMBDA f :
    With(IF IsNum(f.var_pct_adjusted) THEN RAbs(f.var_pct_adjusted)
         ELSE NaN, LAMBDA abs_var :
    With(ExpectedShortfall(f.returns, confidence, holding_period), LAMBDA cvar_percent :
    IF Fault(a) = "info" THEN TryExcept(Raised("<exception>"))
    ELSE IF ~IsNum(f.current_price)
    THEN TryExcept(Raised("unsupported operand type(s)"))
    ELSE [kind |-> "var",
          method |-> method,
          confidence_level |-> RMul(confidence, I(100)),
          holding_period_days |-> holding_period,
          var_percent |->
              IF IsNum(abs_var) THEN RoundTo(RMul(abs_var, I(100)), 2)
              ELSE NaN,
          var_dollar_per_share |->
              IF IsNum(abs_var)
              THEN RoundTo(RMul(f.current_price, abs_var), 2) ELSE NaN,
          cvar_percent |-> RoundTo(cvar_percent, 2),
          cvar_dollar_per_share |->
              RoundTo(RDiv(RMul(f.current_price, cvar_percent), I(100)), 2),
          current_price |-> RoundTo(f.current_price, 2)])))

(***************************************************************************)
(* calculate_sharpe_ratio(ticker, risk_free_rate, period).                 *)
(***************************************************************************)
\* (annual_return - rf) / annual_std, whatever annual_std is.
Sharpe_Unguarded(excess, annual_std) ==
    IF ~IsNum(annual_std) THEN NaN
    ELSE IF annual_std = Zero
    THEN (IF excess = Zero THEN NaN
          ELSE IF Positive(excess) THEN Inf ELSE NegInf)
    ELSE RDiv(excess, annual_std)

\* (annual_return - rf) / annual_std if annual_std > 0 else 0
Sharpe(excess, annual_std) ==
    IF IsNum(annual_std) /\ Positive(annual_std)
    THEN RDiv(excess, annual_std)
    ELSE Zero

\* (annual_return - rf) / downside_std if downside_std > 0 else 0
Sortino(excess, downside_std) ==
    IF IsNum(downside_std) /\ Positive(downside_std)
    THEN RDiv(excess, downside_std)
    ELSE Zero

\* The branches of `if sharpe >= 2: ... elif sharpe >= 1: ...`
Interpretation(sharpe) ==
    IF sharpe = Inf THEN "Excellent risk-adjusted returns"
    ELSE IF ~IsNum(sharpe)
    THEN "Poor risk-adjusted returns (underperforming risk-free rate)"
    ELSE IF RLe(I(2), sharpe) THEN "Excellent risk-adjusted returns"
    ELSE IF RLe(One, sharpe) THEN "Good risk-adjusted returns"
    ELSE IF RLe(R(1, 2), sharpe) THEN "Moderate risk-adjusted returns"
    ELSE IF RLe(Zero, sharpe) THEN "Below average risk-adjusted returns"
    ELSE "Poor risk-adjusted returns (underperforming risk-free rate)"

SharpeLocals(a, risk_free_rate) ==
    With(get_returns(a), LAMBDA returns :
    With(Or(risk_free_rate, RiskAnalytics_RISK_FREE_RATE), LAMBDA rf :
    With(RDiv(rf, I(TRADING_DAYS)), LAMBDA daily_rf :
    With(RMul(Mean(returns), I(TRADING_DAYS)), LAMBDA annual_return :
    With(AnnualStd(returns), LAMBDA annual_std :
    With(Below(returns, daily_rf), LAMBDA downside_returns :
    With(AnnualStd(downside_returns), LAMBDA downside_std :
    [returns |-> returns,
     rf |-> rf,
     daily_rf |-> daily_rf,
     annual_return |-> annual_return,
     annual_std |-> annual_std,
     sharpe |-> Sharpe(RSub(annual_return, rf), annual_std),
     downside_returns |-> downside_returns,
     downside_std |-> downside_std,
     sortino |-> Sortino(RSub(annual_return, rf), downside_std)])))))))

calculate_sharpe_ratio(a, risk_free_rate) ==
    IF get_returns(a) = << >> THEN Err("No data for <ticker>", FALSE, TRUE)
    ELSE
    With(SharpeLocals(a, risk_free_rate), LAMBDA f :
    [kind |-> "sharpe",
     sharpe_ratio |-> RoundF(f.sharpe, 2),
     sortino_ratio |-> RoundF(f.sortino, 2),
     annual_return_percent |-> RoundTo(RMul(f.annual_return, I(100)), 2),
     annual_volatility_percent |->
         IF IsNum(f.annual_std) THEN RoundTo(RMul(f.annual_std, I(100)), 2)
         ELSE NaN,
     risk_free_rate_percent |-> RoundTo(RMul(f.rf, I(100)), 2),
     interpretation |-> Interpretation(f.sharpe)])

(***************************************************************************)
(* calculate_max_drawdown(ticker, period).  The i-th close of the history  *)
(* is dated TradingDay(i).                                                 *)
(***************************************************************************)
\* The calendar day of the i-th trading day of a history that starts on a
\* Thursday: 1, 2, 5, 6, 7, 8, 9, 12, ...
TradingDay(i) == i + 2 * ((i + 2) \div 5)

\* prices.cummax()
CumMax(prices) ==
    [i \in 1..Len(prices) |->
        CHOOSE m \in { prices[j] : j \in 1..i } :
            \A j \in 1..i : RLe(prices[j], m)]

\* (prices - running_max) / running_max
DrawdownSeries(prices) ==
    With(CumMax(prices), LAMBDA running_max :
    [i \in 1..Len(prices) |->
        RDiv(RSub(prices[i], running_max[i]), running_max[i])])

\* Series.idxmin(): the first position of the least value
IdxMin(s) ==
    CHOOSE i \in 1..Len(s) :
        /\ \A j \in 1..Len(s) : RLe(s[i], s[j])
        /\ \A j \in 1..(i - 1) : s[j] # s[i]

\* Series.idxmax(): the first position of the greatest value
IdxMax(s) ==
    CHOOSE i \in 1..Len(s) :
        /\ \A j \in 1..Len(s) : RLe(s[j], s[i])
        /\ \A j \in 1..(i - 1) : s[j] # s[i]

\* The drawdown series without its last day.
MaxDrawdownIdx_BeforeToday(drawdown) ==
    IF Len(drawdown) = 1 THEN 1
    ELSE IdxMin(SubSeq(drawdown, 1, Len(drawdown) - 1))

\* max_dd_idx = drawdown.idxmin()
MaxDrawdownIdx(drawdown) == IdxMin(drawdown)

\* post_trough = prices[max_dd_idx:], the trough's own day included:
\* the first position whose price >= peak_price, 0 when there is none
RecoveryIdx(prices, max_dd_idx, peak_price) ==
    With({ i \in max_dd_idx..Len(prices) : RLe(peak_price, prices[i]) }, LAMBDA at :
    IF at = { } THEN 0 ELSE CHOOSE i \in at : \A j \in at : i <= j)

DrawdownLocals(a) ==
    With([i \in 1..Len(a.closes) |-> I(a.closes[i])], LAMBDA prices :
    With(DrawdownSeries(prices), LAMBDA drawdown :
    With(MaxDrawdownIdx(drawdown), LAMBDA max_dd_idx :
    With(drawdown[max_dd_idx], LAMBDA max_dd :
    \* prices[:max_dd_idx] is a slice by label, which holds its end
    With(IdxMax(SubSeq(prices, 1, max_dd_idx)), LAMBDA peak_idx :
    With(prices[peak_idx], LAMBDA peak_price :
    With(RecoveryIdx(prices, max_dd_idx, peak_price), LAMBDA recovery_idx :
    [prices |-> prices,
     running_max |-> CumMax(prices),
     drawdown |-> drawdown,
     max_dd |-> max_dd,
     max_dd_idx |-> max_dd_idx,
     peak_idx |-> peak_idx,
     peak_price |-> peak_price,
     trough_price |-> prices[max_dd_idx],
     recovered |-> recovery_idx # 0,
     recovery_idx |-> recovery_idx,
     recovery_days |->
         IF recovery_idx # 0
         THEN I(TradingDay(recovery_idx) - TradingDay(max_dd_idx))
         ELSE NoneV,
     current_dd |-> drawdown[Len(drawdown)],
     avg_dd |-> Mean(Below(drawdown, Zero))])))))))

calculate_max_drawdown(a) ==
    IF Fault(a) = "history" THEN TryExcept(Raised("<exception>"))
    ELSE IF a.closes = << >> THEN Err("No data for <ticker>", FALSE, TRUE)
    ELSE
    With(DrawdownLocals(a), LAMBDA f :
    [kind |-> "drawdown",
     max_drawdown_percent |-> RoundTo(RMul(RAbs(f.max_dd), I(100)), 2),
     max_drawdown_peak_date |-> TradingDay(f.peak_idx),
     max_drawdown_trough_date |-> TradingDay(f.max_dd_idx),
     peak_price |-> RoundTo(f.peak_price, 2),
     trough_price |-> RoundTo(f.trough_price, 2),
     recovered |-> f.recovered,
     recovery_days |-> f.recovery_days,
     current_drawdown_percent |-> RoundTo(RMul(RAbs(f.current_dd), I(100)), 2),
     average_drawdown_percent |->
         IF IsNum(f.avg_dd) THEN RoundTo(RMul(RAbs(f.avg_dd), I(100)), 2)
         ELSE Zero])

(***************************************************************************)
(* calculate_volatility(ticker, period, window).                           *)
(***************************************************************************)
\* returns.rolling(window).std() * np.sqrt(TRADING_DAYS): NaN until the
\* window is full
RollingVol(returns, window) ==
    [i \in 1..Len(returns) |->
        IF i < window THEN NaN
        ELSE AnnualStd(SubSeq(returns, i - window + 1, i))]

\* The values of a Series that are not NaN.
NotNa(s) == SelectSeq(s, IsNum)

\* Series.max() and Series.min(), which skip NaN
SeriesMax(s) ==
    With(NotNa(s), LAMBDA v :
    IF v = << >> THEN NaN
    ELSE CHOOSE m \in { v[i] : i \in 1..Len(v) } :
             \A i \in 1..Len(v) : RLe(v[i], m))

SeriesMin(s) ==
    With(NotNa(s), LAMBDA v :
    IF v = << >> THEN NaN
    ELSE CHOOSE m \in { v[i] : i \in 1..Len(v) } :
             \A i \in 1..Len(v) : RLe(m, v[i]))

\* (rolling_vol < current).mean() * 100: a comparison with NaN is False
VolPercentile(rolling_vol, current) ==
    With({ i \in 1..Len(rolling_vol) :
               /\ IsNum(rolling_vol[i])
               /\ IsNum(current)
               /\ RLt(rolling_vol[i], current) }, LAMBDA below :
    R(Cardinality(below) * 100, Len(rolling_vol)))

RiskLevel(hist_vol) ==
    IF ~IsNum(hist_vol) THEN "Very Low"
    ELSE IF RLt(R(50, 100), hist_vol) THEN "Very High"
    ELSE IF RLt(R(35, 100), hist_vol) THEN "High"
    ELSE IF RLt(R(20, 100), hist_vol) THEN "Moderate"
    ELSE IF RLt(R(10, 100), hist_vol) THEN "Low"
    ELSE "Very Low"

\* x * 100 and round(., k) of a float that may be NaN
PctF(x, k) == IF IsNum(x) THEN RoundTo(RMul(x, I(100)), k) ELSE x

VolatilityLocals(a, window) ==
    With(get_returns(a), LAMBDA returns :
    With(RollingVol(returns, window), LAMBDA rolling_vol :
    [returns |-> returns,
     hist_vol |-> AnnualStd(returns),
     rolling_vol |-> rolling_vol,
     current_rolling_vol |-> rolling_vol[Len(rolling_vol)],
     vol_percentile |->
         VolPercentile(rolling_vol, rolling_vol[Len(rolling_vol)]),
     max_vol |-> SeriesMax(rolling_vol),
     min_vol |-> SeriesMin(rolling_vol),
     avg_vol |-> Mean(NotNa(rolling_vol))]))

calculate_volatility(a, window) ==
    IF get_returns(a) = << >> THEN Err("No data for <ticker>", FALSE, TRUE)
    ELSE
    With(VolatilityLocals(a, window), LAMBDA f :
    [kind |-> "volatility",
     rolling_window_days |-> window,
     historical_volatility_percent |-> PctF(f.hist_vol, 2),
     current_rolling_volatility_percent |-> PctF(f.current_rolling_vol, 2),
     volatility_percentile |-> RoundTo(f.vol_percentile, 1),
     max_rolling_volatility_percent |-> PctF(f.max_vol, 2),
     min_rolling_volatility_percent |-> PctF(f.min_vol, 2),
     avg_rolling_volatility_percent |-> PctF(f.avg_vol, 2),
     risk_level |-> RiskLevel(f.hist_vol)])

(***************************************************************************)
(* The functions of several tickers.  The adapter answers the ticker under *)
(* analysis from a.closes (its first close on day 1) and every other       *)
(* ticker t from a.peers[t], a history of closes from day a.peers[t].first *)
(* on.  A dated Series is [first, values]: values[i] is dated first+i-1.   *)
(***************************************************************************)
Primary == "AAPL"
Peers == { "SPY", "QQQ" }
Tickers == { Primary } \cup Peers

\* yf.Ticker(t)
Quote(a, t) ==
    IF t = Primary
    THEN [first |-> 1, closes |-> a.closes, info |-> a.info, fault |-> Fault(a)]
    ELSE [first |-> a.peers[t].first, closes |-> a.peers[t].closes,
          info |-> a.info, fault |-> Fault(a)]

\* get_returns(t, period) with its dates: the first return is dated the day
\* after the first close
DatedReturns(a, t) ==
    [first |-> Quote(a, t).first + 1, values |-> get_returns(Quote(a, t))]

\* The rows paired by their position, whatever their dates.
Aligned_ByPosition(x, y) ==
    With(IF Len(x.values) < Len(y.values) THEN Len(x.values)
         ELSE Len(y.values), LAMBDA n :
    [stock |-> SubSeq(x.values, 1, n), market |-> SubSeq(y.values, 1, n)])

\* pd.concat([x, y], axis=1).dropna() of two non-empty dated Series: the
\* rows of the dates both have
Aligned(x, y) ==
    With(IF x.first < y.first THEN y.first ELSE x.first, LAMBDA lo :
    With(x.first + Len(x.values) - 1, LAMBDA xhi :
    With(y.first + Len(y.values) - 1, LAMBDA yhi :
    With(IF xhi < yhi THEN xhi ELSE yhi, LAMBDA hi :
    IF hi < lo THEN [stock |-> << >>, market |-> << >>]
    ELSE [stock |-> SubSeq(x.values, lo - x.first + 1, hi - x.first + 1),
          market |-> SubSeq(y.values, lo - y.first + 1, hi - y.first + 1)]))))

SumProdDev(x, mx, y, my) ==
    Sum([i \in 1..Len(x) |-> RMul(RSub(x[i], mx), RSub(y[i], my))])

\* Series.cov(other) of two Series of one length: the sample covariance, NaN
\* below two rows
Cov(x, y) ==
    IF Len(x) < 2 THEN NaN
    ELSE RDiv(SumProdDev(x, Mean(x), y, Mean(y)), I(Len(x) - 1))

\* Series.corr(other): Pearson's r, NaN below two rows or when one side does
\* not vary
Corr(x, y) ==
    IF Len(x) < 2 THEN NaN
    ELSE IF Variance(x) = Zero \/ Variance(y) = Zero THEN NaN
    ELSE RDiv(Cov(x, y), Sqrt(RMul(Variance(x), Variance(y))))

(***************************************************************************)
(* calculate_beta_alpha(ticker, benchmark, period).                        *)
(***************************************************************************)
\* len(combined) < 30
MIN_OBSERVATIONS == 30

\* beta = covariance / market_variance if market_variance > 0 else 1
Beta(covariance, market_variance) ==
    IF RLt(Zero, market_variance) THEN RDiv(covariance, market_variance)
    ELSE One

BetaInterpretation(beta) ==
    IF ~IsNum(beta) THEN "Very defensive"
    ELSE IF RLt(R(15, 10), beta) THEN "Highly aggressive"
    ELSE IF RLt(One, beta) THEN "Aggressive"
    ELSE IF RLt(R(8, 10), beta) THEN "Neutral"
    ELSE IF RLt(R(5, 10), beta) THEN "Defensive"
    ELSE "Very defensive"

BetaLocals(a, ticker, benchmark) ==
    With(Aligned(DatedReturns(a, ticker), DatedReturns(a, benchmark)), LAMBDA combined :
    With(Cov(combined.stock, combined.market), LAMBDA covariance :
    With(Variance(combined.market), LAMBDA market_variance :
    With(Beta(covariance, market_variance), LAMBDA beta :
    With(RiskAnalytics_RISK_FREE_RATE, LAMBDA rf :
    With(RMul(Mean(combined.stock), I(TRADING_DAYS)), LAMBDA stock_annual_return :
    With(RMul(Mean(combined.market), I(TRADING_DAYS)), LAMBDA market_annual_return :
    With(RAdd(rf, RMul(beta, RSub(market_annual_return, rf))), LAMBDA expected_return :
    With(Corr(combined.stock, combined.market), LAMBDA correlation :
    [combined |-> combined,
     covariance |-> covariance,
     market_variance |-> market_variance,
     beta |-> beta,
     stock_annual_return |-> stock_annual_return,
     market_annual_return |-> market_annual_return,
     expected_return |-> expected_return,
     alpha |-> RSub(stock_annual_return, expected_return),
     correlation |-> correlation,
     r_squared |-> IF IsNum(correlation) THEN RMul(correlation, correlation)
                   ELSE NaN])))))))))

calculate_beta_alpha(a, ticker, benchmark) ==
    IF \/ DatedReturns(a, ticker).values = << >>
       \/ DatedReturns(a, benchmark).values = << >>
    THEN Err("No data for <ticker> or <benchmark>", FALSE, TRUE)
    ELSE IF Len(Aligned(DatedReturns(a, ticker),
                        DatedReturns(a, benchmark)).stock) < MIN_OBSERVATIONS
    THEN Err("Insufficient data for beta calculation", FALSE, FALSE)
    ELSE
    With(BetaLocals(a, ticker, benchmark), LAMBDA f :
    [kind |-> "beta",
     ticker |-> ticker,
     benchmark |-> benchmark,
     beta |-> RoundF(f.beta, 2),
     alpha_percent |-> PctF(f.alpha, 2),
     correlation |-> RoundF(f.correlation, 2),
     r_squared |-> RoundF(f.r_squared, 2),
     stock_annual_return_percent |-> PctF(f.stock_annual_return, 2),
     market_annual_return_percent |-> PctF(f.market_annual_return, 2),
     expected_return_percent |-> PctF(f.expected_return, 2),
     beta_interpretation |-> BetaInterpretation(f.beta)])

(***************************************************************************)
(* correlation_matrix(tickers, period).                                    *)
(***************************************************************************)
\* The keys of returns_dict in the order of their first insertion: the
\* requested tickers with a non-empty return series, each once.
RECURSIVE ReturnsDictKeys(_, _)
ReturnsDictKeys(a, tickers) ==
    IF tickers = << >> THEN << >>
    ELSE With(ReturnsDictKeys(a, SubSeq(tickers, 1, Len(tickers) - 1)), LAMBDA before :
         With(tickers[Len(tickers)], LAMBDA ticker :
         IF \/ get_returns(Quote(a, ticker)) = << >>
            \/ \E i \in 1..Len(before) : before[i] = ticker
         THEN before
         ELSE Append(before, ticker)))

\* returns_df.corr() at (t1, t2): Pearson's r over the dates both have
CorrAt(a, t1, t2) ==
    With(Aligned(DatedReturns(a, t1), DatedReturns(a, t2)), LAMBDA c :
    Corr(c.stock, c.market))

\* The pairs (i, j), i < j, of the columns in the order of the two loops.
RECURSIVE PairsFrom(_, _, _, _)
PairsFrom(a, keys, i, j) ==
    IF i > Len(keys) THEN << >>
    ELSE IF j > Len(keys) THEN PairsFrom(a, keys, i + 1, i + 2)
    ELSE << [pair |-> << keys[i], keys[j] >>,
             correlation |-> RoundF(CorrAt(a, keys[i], keys[j]), 3)] >>
         \o PairsFrom(a, keys, i, j + 1)

\* x < y of two floats: False when one of them is NaN
FloatLt(x, y) == IsNum(x) /\ IsNum(y) /\ RLt(x, y)

Reverse(s) == [i \in 1..Len(s) |-> s[Len(s) + 1 - i]]

\* list.sort(key = correlation) for the up to three pairs of three tickers:
\* every element is moved left past the elements it is less than
RECURSIVE InsertFromRight(_, _)
InsertFromRight(e, out) ==
    IF out = << >> THEN << e >>
    ELSE IF FloatLt(e.correlation, out[Len(out)].correlation)
    THEN Append(InsertFromRight(e, SubSeq(out, 1, Len(out) - 1)), out[Len(out)])
    ELSE Append(out, e)

RECURSIVE SortAscending(_)
SortAscending(l) ==
    IF l = << >> THEN << >>
    ELSE InsertFromRight(l[Len(l)], SortAscending(SubSeq(l, 1, Len(l) - 1)))

\* list.sort(key = ..., reverse = True): reverse, sort, reverse
SortDescending(l) == Reverse(SortAscending(Reverse(l)))

\* The keys of returns_dict, in the order of their first insertion.
CorrelationKeys(a, tickers) == ReturnsDictKeys(a, tickers)

correlation_matrix(a, tickers) ==
    With(CorrelationKeys(a, tickers), LAMBDA keys :
    With({ keys[i] : i \in 1..Len(keys) }, LAMBDA columns :
    With(SortDescending(PairsFrom(a, keys, 1, 2)), LAMBDA corr_values :
    IF Len(keys) < 2
    THEN Err("Need at least 2 valid tickers for correlation", FALSE, FALSE)
    ELSE [kind |-> "correlation",
          tickers |-> keys,
          matrix |-> [t1 \in columns |->
                        [t2 \in columns |-> RoundF(CorrAt(a, t1, t2), 3)]],
          highest_correlation |->
              IF corr_values # << >> THEN corr_values[1] ELSE NoneV,
          lowest_correlation |->
              IF corr_values # << >> THEN corr_values[Len(corr_values)]
              ELSE NoneV,
          all_pairs |-> corr_values])))

(***************************************************************************)
(* The summaries: get_dcf_summary(ticker) and get_risk_summary(ticker,     *)
(* period).  A summary is the text's kind and the figures printed in it.   *)
(***************************************************************************)
\* dcf = DCFModel.calculate_dcf(ticker): every argument at its default
DcfDefaults ==
    [years |-> 5, revenue_growth_rates |-> NoList,
     operating_margin_targets |-> NoList, terminal_growth_rate |-> NoneV,
     wacc_override |-> NoneV]

get_dcf_summary(a) ==
    With(calculate_dcf(a, DcfDefaults), LAMBDA dcf :
    IF IsError(dcf)
    THEN [kind |-> "text", error |-> TRUE, message |-> dcf.error]
    ELSE [kind |-> "text", error |-> FALSE,
          wacc |-> dcf.wacc,
          cost_of_equity |-> dcf.wacc_components.cost_of_equity,
          enterprise_value |-> dcf.enterprise_value,
          intrinsic_value_per_share |-> dcf.intrinsic_value_per_share,
          upside_percent |-> dcf.upside_percent,
          valuation_status |-> dcf.valuation_status])

\* The five results get_risk_summary asks for, every argument at its
\* default (the benchmark of calculate_beta_alpha is SPY).
RiskSummaryParts(a) ==
    << calculate_var(a, R(95, 100), 1, "historical"),
       calculate_sharpe_ratio(a, NoneV),
       calculate_max_drawdown(a),
       calculate_volatility(a, 30),
       calculate_beta_alpha(a, Primary, "SPY") >>

get_risk_summary(a) ==
    With(RiskSummaryParts(a), LAMBDA parts :
    IF \E i \in 1..Len(parts) : IsError(parts[i])
    THEN [kind |-> "text", error |-> TRUE,
          message |-> "Error calculating risk metrics for <ticker>"]
    ELSE [kind |-> "text", error |-> FALSE,
          var_percent |-> parts[1].var_percent,
          sharpe_ratio |-> parts[2].sharpe_ratio,
          max_drawdown_percent |-> parts[3].max_drawdown_percent,
          risk_level |-> parts[4].risk_level,
          beta |-> parts[5].beta])

(***************************************************************************)
(* storage.py: DatabaseManager and WatchlistManager over the SQLite file.  *)
(* The database is [opened, foreign_keys, watchlists, watchlist_items,     *)
(* sqlite_sequence]: the rows of the two tables by their key columns       *)
(* (watchlists: id, name; watchlist_items: id, watchlist_id, ticker) and   *)
(* the AUTOINCREMENT counters.  Every method opens its own connection,     *)
(* commits and closes it.                                                  *)
(***************************************************************************)
\* _get_connection(): sqlite3.connect(path) and the row factory; no
\* "PRAGMA foreign_keys = ON" is issued, so the connection enforces the
\* FOREIGN KEY clause only when the SQLite library was compiled to do so by
\* default (the stock default is off).
ForeignKeysEnforced(db) == db.foreign_keys

\* The value a method returns: {"success": ..., "message": ...}
Status(success, message) ==
    [kind |-> "status", success |-> success, message |-> message]

\* INSERT INTO watchlists (name, description): name is UNIQUE, id is
\* AUTOINCREMENT (one more than the largest id ever given)
InsertWatchlist(db, name) ==
    IF \E w \in db.watchlists : w.name = name
    THEN [raised |-> TRUE, db |-> db]
    ELSE With(db.sqlite_sequence.watchlists + 1, LAMBDA id :
         [raised |-> FALSE,
          lastrowid |-> id,
          db |-> [db EXCEPT
                     !.watchlists = @ \cup { [id |-> id, name |-> name] },
                     !.sqlite_sequence.watchlists = id]])

\* _init_database(): the tables exist; the default watchlist is created
\* when the table of watchlists is empty
init_database(db) ==
    IF db.watchlists = { }
    THEN InsertWatchlist(db, "My Watchlist").db
    ELSE db

\* create_watchlist(name)
create_watchlist(db, name) ==
    With(InsertWatchlist(db, name), LAMBDA inserted :
    IF inserted.raised
    THEN [db |-> db,
          ret |-> Status(FALSE, "Watchlist '<name>' already exists")]
    ELSE [db |-> inserted.db,
          ret |-> Status(TRUE, "Watchlist '<name>' created successfully")
                      @@ [id |-> inserted.lastrowid, name |-> name]])

\* DELETE FROM watchlists WHERE id = ?: with the foreign key enforced the
\* items of the watchlist go with it (ON DELETE CASCADE)
DeleteWatchlist(db, watchlist_id) ==
    [db EXCEPT
        !.watchlists = { w \in @ : w.id # watchlist_id },
        !.watchlist_items =
            IF ForeignKeysEnforced(db)
               /\ \E w \in db.watchlists : w.id = watchlist_id
            THEN { item \in @ : item.watchlist_id # watchlist_id }
            ELSE @]

\* delete_watchlist(watchlist_id)
delete_watchlist(db, watchlist_id) ==
    With(Cardinality({ w \in db.watchlists : w.id = watchlist_id }), LAMBDA affected :
    [db |-> DeleteWatchlist(db, watchlist_id),
     ret |-> IF affected > 0
             THEN Status(TRUE, "Watchlist deleted")
             ELSE Status(FALSE, "Watchlist not found")])

\* ticker.upper().strip()
RawTickers == { "AAPL", " aapl ", "MSFT" }
UpperStrip(ticker) == IF ticker = " aapl " THEN "AAPL" ELSE ticker

\* INSERT INTO watchlist_items (watchlist_id, ticker, ...): (watchlist_id,
\* ticker) is UNIQUE; the reference to watchlists(id) is checked only with
\* the foreign key enforced
InsertItem(db, watchlist_id, ticker) ==
    IF \/ \E item \in db.watchlist_items :
              item.watchlist_id = watchlist_id /\ item.ticker = ticker
       \/ /\ ForeignKeysEnforced(db)
          /\ ~ \E w \in db.watchlists : w.id = watchlist_id
    THEN [raised |-> TRUE, db |-> db]
    ELSE With(db.sqlite_sequence.watchlist_items + 1, LAMBDA id :
         [raised |-> FALSE,
          db |-> [db EXCEPT
                     !.watchlist_items =
                         @ \cup { [id |-> id,
                                   watchlist_id |-> watchlist_id,
                                   ticker |-> ticker] },
                     !.sqlite_sequence.watchlist_items = id]])

\* add_to_watchlist(ticker, watchlist_id = 1): sqlite3.IntegrityError is
\* answered with the one message, whichever constraint failed
add_to_watchlist(db, raw_ticker, watchlist_id) ==
    With(UpperStrip(raw_ticker), LAMBDA ticker :
    With(InsertItem(db, watchlist_id, ticker), LAMBDA inserted :
    IF inserted.raised
    THEN [db |-> db,
          ret |-> Status(FALSE, "<ticker> is already in this watchlist")]
    ELSE [db |-> inserted.db,
          ret |-> Status(TRUE, "<ticker> added to watchlist")
                      @@ [ticker |-> ticker]]))

\* remove_from_watchlist(ticker, watchlist_id = 1)
remove_from_watchlist(db, raw_ticker, watchlist_id) ==
    With(UpperStrip(raw_ticker), LAMBDA ticker :
    With({ item \in db.watchlist_items :
               item.watchlist_id = watchlist_id /\ item.ticker = ticker }, LAMBDA rows :
    [db |-> [db EXCEPT !.watchlist_items = @ \ rows],
     ret |-> IF Cardinality(rows) > 0
             THEN Status(TRUE, "<ticker> removed from watchlist")
             ELSE Status(FALSE, "<ticker> not found in watchlist")]))

\* get_watchlist_items(watchlist_id = 1): the rows of the items, whether the
\* watchlist exists or not
get_watchlist_items(db, watchlist_id) ==
    { item \in db.watchlist_items : item.watchlist_id = watchlist_id }

\* get_watchlist(watchlist_id): None when there is no such watchlist
get_watchlist(db, watchlist_id) ==
    IF ~ \E w \in db.watchlists : w.id = watchlist_id
    THEN [kind |-> "none"]
    ELSE With(CHOOSE w \in db.watchlists : w.id = watchlist_id, LAMBDA watchlist :
         [kind |-> "watchlist", id |-> watchlist.id,
          name |-> watchlist.name,
          items |-> get_watchlist_items(db, watchlist_id)])

(***************************************************************************)
(* strategies.py: the four strategies under cerebro.  The run is           *)
(* [running, strategy, order, position, orders, notifs]: the class of the  *)
(* strategy, its field self.order (the ref of an order, NoOrder for None), *)
(* the size of self.position, the broker's orders by ref, each             *)
(* [isbuy, status, executed], and the notifications the broker has queued  *)
(* for the strategy, each [ref, status].                                   *)
(***************************************************************************)
Strategies ==
    { "RSI_Strategy", "MACD_Strategy", "BollingerBands_Strategy",
      "MovingAverageRibbon_Strategy" }

\* self.order = None
NoOrder == 0

\* The size of the order self.buy() and self.sell() create.
Stake == 2

\* The statuses after which the broker does nothing more with an order.
TerminalStatuses == { "Completed", "Canceled", "Margin", "Rejected" }

\* The orders the broker still works on.
Pending(c) ==
    { ref \in 1..Len(c.orders) : c.orders[ref].status \notin TerminalStatuses }

\* self.buy() / self.sell(): the broker takes the order as Submitted, queues
\* the notification and the call returns the order
Submit(c, isbuy) ==
    With(Len(c.orders) + 1, LAMBDA ref :
    [c EXCEPT
        !.orders = Append(@, [isbuy |-> isbuy, status |-> "Submitted",
                              executed |-> 0]),
        !.notifs = Append(@, [ref |-> ref, status |-> "Submitted"]),
        !.order = ref])

\* notify_order(order): RSI_Strategy, MACD_Strategy and
\* BollingerBands_Strategy return on Submitted and Accepted;
\* MovingAverageRibbon_Strategy has no such return; then self.order = None
notify_order(c, status) ==
    IF /\ c.strategy # "MovingAverageRibbon_Strategy"
       /\ status \in { "Submitted", "Accepted" }
    THEN c
    ELSE [c EXCEPT !.order = NoOrder]

\* next(): nothing while self.order is set; flat, buy on the strategy's buy
\* signal; in position, sell on its sell signal
next(c, buy_signal, sell_signal) ==
    IF c.order # NoOrder THEN c
    ELSE IF c.position = 0
    THEN IF buy_signal THEN Submit(c, TRUE) ELSE c
    ELSE IF sell_signal THEN Submit(c, FALSE) ELSE c

\* The statuses the broker may give an order next.
NextStatuses(status) ==
    CASE status = "Submitted" -> { "Accepted", "Margin", "Rejected" }
      [] status = "Accepted" -> { "Partial", "Completed", "Canceled" }
      [] status = "Partial" -> { "Completed", "Canceled" }
      [] OTHER -> { }

\* The size the order has executed once it has the status.
Executed(order, status) ==
    CASE status = "Partial" -> order.executed + 1
      [] status = "Completed" -> Stake
      [] OTHER -> order.executed

\* The broker gives the order a status: what it executes goes to the
\* position, and the strategy is notified
BrokerUpdate(c, ref, status) ==
    With(c.orders[ref], LAMBDA order :
    With(Executed(order, status), LAMBDA executed :
    With(executed - order.executed, LAMBDA delta :
    [c EXCEPT
        !.orders[ref].status = status,
        !.orders[ref].executed = executed,
        !.position = IF order.isbuy THEN @ + delta ELSE @ - delta,
        !.notifs = Append(@, [ref |-> ref, status |-> status])])))

(***************************************************************************)
(* The inputs: what the adapter may answer and what a caller may pass.     *)
(***************************************************************************)
MaxYears == 3
\* project_financials alone is followed through the whole default schedule.
MaxProjectYears == 5

Col(rev, oi, ocf, capex) == [rev |-> rev, oi |-> oi, ocf |-> ocf, capex |-> capex]

BaseIncome ==
    << Col(10, 3, 4, -1), Col(10, 2, 3, -1), Col(10, 2, 2, -1) >>

\* A history before and after its latest fiscal year is published.
PriorIncome ==
    << Col(10, 4, 5, -1), Col(10, 4, 5, -1), Col(10, 4, 5, -1) >>

LatestIncome ==
    << Col(10, 5, 6, -1), Col(10, 4, 5, -1), Col(10, 4, 5, -1) >>

\* Histories whose projections stay short decimals: no growth, growth at the
\* caps, a decline, a year without revenue, and none at all.
Incomes ==
    { << >>,
      BaseIncome,
      << Col(10, 4, 5, -2), Col(10, 4, 5, -1), Col(10, 3, 4, -1) >>,
      << Col(10, 3, 0, 0) >>,
      << Col(10, 3, 0, 0), Col(10, 3, 4, -1), Col(10, 2, 3, -1) >>,
      << Col(10, 0, 4, -1), Col(10, 2, 3, -1) >>,
      << Col(4, 1, 2, -1), Col(0, 0, 0, 0), Col(1, 1, 2, -1) >>,
      << Col(0, 1, 2, -1), Col(10, 3, 4, -1) >>,
      << Col(1, 1, 3, -1), Col(1, 1, 2, -1), Col(4, 1, 2, -1) >>,
      << Col(4, 1, 2, -1) >> }

\* Histories with a growth below the caps (20%, 25%) or a cash flow that
\* is a third of the income, for the projection alone.
GrowthIncomes ==
    { << Col(6, 3, 4, -1), Col(5, 2, 3, -1) >>,
      << Col(25, 5, 8, -3), Col(16, 4, 5, -1), Col(16, 4, 5, -1) >>,
      << Col(8, 3, 3, -2), Col(8, 3, 3, -1) >> }

BaseInfo ==
    [currentPrice |-> I(20), regularMarketPrice |-> Absent,
     sharesOutstanding |-> I(2), marketCap |-> I(50), beta |-> One,
     totalDebt |-> Zero, totalCash |-> I(2)]

Amounts == { Absent, NoneV, Zero, I(7), I(10), I(30) }

\* What the valuation reads of info, with a computed WACC of 10%.
Infos ==
    { [BaseInfo EXCEPT !.sharesOutstanding = n] :
          n \in { Absent, NoneV, Zero, I(3) } }
    \cup { [BaseInfo EXCEPT !.totalCash = c] : c \in { Absent, NoneV, I(4), I(70) } }
    \cup { [BaseInfo EXCEPT !.totalCash = I(5), !.currentPrice = I(25)] }
    \cup { [BaseInfo EXCEPT !.totalDebt = d] : d \in { Absent, NoneV } }
    \cup { [BaseInfo EXCEPT !.beta = b] : b \in { Absent, NoneV, Zero } }
    \cup { [BaseInfo EXCEPT !.currentPrice = c, !.regularMarketPrice = r] :
               c \in { Absent, NoneV, Zero, I(15) }, r \in { Absent, NoneV, I(25) } }

Adapters ==
    { [income |-> inc, interest |-> 0, info |-> BaseInfo] : inc \in Incomes }
    \cup { [income |-> BaseIncome, interest |-> 0, info |-> info] : info \in Infos }
    \cup { [income |-> BaseIncome, interest |-> -10,
            info |-> [BaseInfo EXCEPT !.marketCap = I(79), !.totalDebt = I(79)]] }

\* What calculate_wacc reads: the capital structure, beta, the interest paid.
WaccAdapters ==
    { [income |-> BaseIncome, interest |-> 0,
       info |-> [BaseInfo EXCEPT !.marketCap = m, !.totalDebt = d]] :
          m \in Amounts, d \in Amounts }
    \cup { [income |-> BaseIncome, interest |-> 0,
            info |-> [BaseInfo EXCEPT !.marketCap = I(1), !.totalDebt = I(31)]] }
    \cup { [income |-> BaseIncome, interest |-> 0,
            info |-> [BaseInfo EXCEPT !.beta = b]] :
               b \in { Absent, NoneV, Zero, I(2) } }
    \cup { [income |-> inc, interest |-> x,
            info |-> [BaseInfo EXCEPT !.totalDebt = d]] :
               inc \in { << >>, BaseIncome }, x \in { -1, 2 },
               d \in { Zero, I(10) } }

\* project_financials' histories, with those growing below the caps.
ProjectAdapters ==
    { [income |-> inc, interest |-> 0, info |-> BaseInfo] :
          inc \in Incomes \cup GrowthIncomes }

Rates == { NoneV, Zero, R(3, 100) }

GrowthLists ==
    { NoList, List(<< >>), List(<< R(10, 100) >>),
      List(<< R(25, 100), R(20, 100), Zero >>), List(<< I(-1) >>) }
MarginLists ==
    { NoList, List(<< >>), List(<< R(30, 100) >>), List(<< R(20, 100), R(25, 100) >>) }

ProjectArgsUpTo(max_years) ==
    { [years |-> y, revenue_growth_rates |-> g, operating_margin_targets |-> m] :
          y \in 0..max_years, g \in GrowthLists, m \in { NoList } }
    \cup { [years |-> y, revenue_growth_rates |-> g, operating_margin_targets |-> m] :
          y \in 0..max_years, g \in { NoList, List(<< R(10, 100) >>) },
          m \in MarginLists }

ProjectArgs == ProjectArgsUpTo(MaxYears)

\* The histories of Incomes are projected to MaxProjectYears, the others to
\* MaxYears (their later years do not fit the machine integer).
ProjectCallArgs(a) ==
    ProjectArgsUpTo(IF a.income \in Incomes THEN MaxProjectYears ELSE MaxYears)

TerminalGrowths == { NoneV, Zero, R(3, 100), R(10, 100) }
WaccOverrides == { NoneV, Zero, R(2, 100), R(25, 1000), R(10, 100), R(25, 100), I(-1) }

\* The projection's arguments with the default rates, for every history; the
\* rate arguments with the default projection, for the base history (the
\* discounting of a long decimal at an odd rate does not fit the machine
\* integer).
DcfArgs(a) ==
    { [years |-> p.years, revenue_growth_rates |-> p.revenue_growth_rates,
       operating_margin_targets |-> p.operating_margin_targets,
       terminal_growth_rate |-> NoneV, wacc_override |-> NoneV] :
          p \in ProjectArgs }
    \cup { [years |-> y, revenue_growth_rates |-> NoList,
            operating_margin_targets |-> NoList,
            terminal_growth_rate |-> g, wacc_override |-> w] :
          y \in 1..MaxYears,
          g \in IF a.income = BaseIncome THEN TerminalGrowths ELSE { NoneV },
          w \in IF a.income = BaseIncome THEN WaccOverrides ELSE { NoneV } }

\* What the adapter may answer next when its data changes during a call:
\* another capital structure, another history, other market data.
ConcAdapters ==
    { [income |-> PriorIncome, interest |-> 0, info |-> BaseInfo],
      [income |-> PriorIncome, interest |-> -10,
       info |-> [BaseInfo EXCEPT !.marketCap = I(79), !.totalDebt = I(79)]],
      [income |-> LatestIncome, interest |-> 0,
       info |-> [BaseInfo EXCEPT !.totalCash = I(5), !.currentPrice = I(25)]] }

\* The price histories of the risk analytics: up to MaxDays closing prices,
\* each half, the same as or twice another (so that every return is a
\* binary fraction, which a float holds exactly).
MaxDays == 4
Prices == { 50, 100, 200 }
Closes == UNION { [1..n -> Prices] : n \in 0..MaxDays }

RiskInfos ==
    { [currentPrice |-> I(100), regularMarketPrice |-> Absent],
      [currentPrice |-> NoneV, regularMarketPrice |-> I(50)],
      [currentPrice |-> Absent, regularMarketPrice |-> Absent],
      [currentPrice |-> NoneV, regularMarketPrice |-> NoneV] }

RiskAdapters ==
    [closes : Closes, info : RiskInfos, fault : { "none" }]
    \cup [closes : { << 100, 200, 50 >> },
          info : { [currentPrice |-> I(100), regularMarketPrice |-> Absent] },
          fault : { "history", "info" }]

Confidences == { R(95, 100), R(99, 100), R(1, 2) }
\* Holding periods whose square root is exact.
HoldingPeriods == { 1, 4 }
Methods == { "historical", "parametric" }
RiskRates == { NoneV, Zero, R(3, 100), R(-1, 100) }
\* Rolling windows: a short one and the default of calculate_volatility.
Windows == { 2, 30 }

\* Histories of several tickers: a pattern of prices repeated over n days.
History(pattern, n) ==
    [i \in 1..n |-> pattern[((i - 1) % Len(pattern)) + 1]]

Patterns == { << 100 >>, << 100, 200 >>, << 200, 100, 100 >> }
ShortLengths == { 0, 1, 2, 4 }
MarketCloses == { History(p, n) : p \in Patterns, n \in ShortLengths }
PeerHistories == [first : { 1, 2 }, closes : MarketCloses]

MarketAdapters ==
    [closes : MarketCloses,
     info : { [currentPrice |-> I(100), regularMarketPrice |-> Absent] },
     fault : { "none" },
     peers : [Peers -> PeerHistories]]

\* The lists of up to three tickers a caller may ask correlation_matrix for.
TickerLists == UNION { [1..n -> Tickers] : n \in 0..Cardinality(Tickers) }

\* The adapters at the boundary of the public functions: answers with
\* missing and null fields, and fetches that raise.
NullInfos ==
    { BaseInfo,
      [BaseInfo EXCEPT !.sharesOutstanding = NoneV],
      [BaseInfo EXCEPT !.totalDebt = NoneV],
      [BaseInfo EXCEPT !.totalCash = Absent],
      [BaseInfo EXCEPT !.beta = NoneV],
      [BaseInfo EXCEPT !.currentPrice = NoneV, !.regularMarketPrice = NoneV] }

DcfBoundaryAdapters ==
    { [income |-> BaseIncome, interest |-> 0, info |-> info] :
          info \in NullInfos }
    \cup { [income |-> << >>, interest |-> 0, info |-> BaseInfo] }
    \cup { [income |-> BaseIncome, interest |-> 0, info |-> BaseInfo,
            fault |-> f] : f \in { "info", "statements" } }

RiskBoundaryAdapters ==
    [closes : { << >>, << 100 >>, << 100, 200, 100, 100 >> },
     info : RiskInfos,
     fault : { "none", "history", "info" },
     peers : [Peers -> [first : { 1 },
                        closes : { << >>, << 100, 200, 100, 200 >> }]]]

\* A longer history, of which every function has a result.
LongAdapter ==
    [closes |-> History(<< 100, 200 >>, MIN_OBSERVATIONS + 1),
     info |-> [currentPrice |-> I(100), regularMarketPrice |-> Absent],
     fault |-> "none",
     peers |-> [t \in Peers |->
                  [first |-> 1,
                   closes |-> History(<< 200, 100, 100 >>, MIN_OBSERVATIONS + 1)]]]

BoundaryAdapters ==
    DcfBoundaryAdapters \cup RiskBoundaryAdapters \cup { LongAdapter }

\* Histories around the 30 observations calculate_beta_alpha asks for, the
\* benchmark's starting up to two days after the stock's or before it.
LongLengths == { 0 } \cup (MIN_OBSERVATIONS - 1)..(MIN_OBSERVATIONS + 2)
LongPatterns == Patterns \cup { << 100, 200, 50 >> }
LongCloses == { History(p, n) : p \in LongPatterns, n \in LongLengths }

BetaAdapters ==
    { [closes |-> c,
       info |-> [currentPrice |-> I(100), regularMarketPrice |-> Absent],
       fault |-> "none",
       peers |-> [t \in Peers |-> IF t = "SPY" THEN spy ELSE qqq]] :
          c \in LongCloses,
          spy \in [first : { 1, 2, 3 }, closes : LongCloses],
          qqq \in [first : { 1 },
                   closes : { << >>, History(<< 100 >>, MIN_OBSERVATIONS + 1) }] }

\* The database files: as DatabaseManager() leaves a new file, with the
\* foreign keys enforced by the library's default or not.
MaxWatchlists == 3
MaxItems == 3
WatchlistNames == { "My Watchlist", "Tech" }
WatchlistIds == 1..MaxWatchlists
NewDatabase(foreign_keys) ==
    init_database([opened |-> TRUE,
                   foreign_keys |-> foreign_keys,
                   watchlists |-> { },
                   watchlist_items |-> { },
                   sqlite_sequence |-> [watchlists |-> 0,
                                        watchlist_items |-> 0]])
Databases == { NewDatabase(foreign_keys) : foreign_keys \in BOOLEAN }

\* The backtests: one strategy each, no order yet.
MaxOrders == 2
NewCerebro(strategy) ==
    [running |-> TRUE, strategy |-> strategy, order |-> NoOrder,
     position |-> 0, orders |-> << >>, notifs |-> << >>]

\* The grid of sensitivity_analysis: up to MaxSteps values a side.
MaxSteps == 3

WaccRanges == { << R(1, 10), R(1, 10) >>, << Zero, R(1, 2) >> }
GrowthRanges ==
    { << Zero, Zero >>, << R(25, 1000), R(25, 1000) >>, << Zero, R(1, 2) >> }

\* The grids for the base history, the two histories of a changing adapter
\* and no history; the other histories
\* are taken through a grid at a WACC of 0 (their 5-year cash flows at
\* another rate do not fit the machine integer).
SensArgs(a) ==
    IF a.income \in { << >>, BaseIncome, PriorIncome, LatestIncome }
    THEN { [wacc_range |-> w, growth_range |-> g, steps |-> n] :
              w \in WaccRanges, g \in GrowthRanges, n \in 0..MaxSteps }
    ELSE { [wacc_range |-> << Zero, Zero >>, growth_range |-> << Zero, Zero >>,
            steps |-> n] : n \in 0..1 }

(***************************************************************************)
(* The state: the adapter's data, the call in progress (its arguments and  *)
(* frame, and where it stands), and the value it returned.  DCFModel and   *)
(* RiskAnalytics keep nothing between calls: a caller takes the result     *)
(* (Release) and the next call starts from the adapter alone.  What        *)
(* WatchlistManager keeps is the database file; a backtest keeps the       *)
(* strategy object and the broker's orders in cerebro.                     *)
(***************************************************************************)
VARIABLES adapter, pc, args, frame, result, database, cerebro

vars == << adapter, pc, args, frame, result, database, cerebro >>

\* No call is in progress.
NoCall ==
    /\ pc = "idle"
    /\ args = [op |-> "none"]
    /\ frame = [op |-> "none"]
    /\ result = [kind |-> "none"]

\* The functions of DCFModel and RiskAnalytics open no database and run no
\* backtest.
NoDatabase == [opened |-> FALSE]
NoCerebro == [running |-> FALSE]

Idle ==
    /\ NoCall
    /\ database = NoDatabase
    /\ cerebro = NoCerebro

Release ==
    /\ pc = "returned"
    /\ pc' = "idle"
    /\ args' = [op |-> "none"]
    /\ frame' = [op |-> "none"]
    /\ result' = [kind |-> "none"]
    /\ UNCHANGED << adapter, database, cerebro >>

\* A whole call of calculate_wacc.
CallWacc ==
    /\ pc = "idle"
    /\ \E rf \in Rates, mrp \in Rates, tax \in Rates :
          /\ args' = [op |-> "calculate_wacc", risk_free_rate |-> rf,
                      market_risk_premium |-> mrp, tax_rate |-> tax]
          /\ frame' = IF IsError(calculate_wacc(adapter, rf, mrp, tax))
                      THEN [op |-> "calculate_wacc"]
                      ELSE WaccLocals(adapter, rf, mrp, tax)
          /\ result' = calculate_wacc(adapter, rf, mrp, tax)
    /\ pc' = "returned"
    /\ UNCHANGED << adapter, database, cerebro >>

\* A whole call of project_financials.
CallProject ==
    /\ pc = "idle"
    /\ \E p \in ProjectCallArgs(adapter) :
          /\ args' = [op |-> "project_financials"] @@ p
          /\ frame' = ProjectLocals(adapter, p.years, p.revenue_growth_rates,
                                    p.operating_margin_targets)
          /\ result' = frame'.ret
    /\ pc' = "returned"
    /\ UNCHANGED << adapter, database, cerebro >>

\* calculate_dcf is entered.
DcfCall ==
    /\ pc = "idle"
    /\ \E d \in DcfArgs(adapter) : args' = [op |-> "calculate_dcf"] @@ d
    /\ pc' = "dcf_wacc"
    /\ frame' = [op |-> "calculate_dcf"]
    /\ result' = [kind |-> "pending"]
    /\ UNCHANGED << adapter, database, cerebro >>

\* wacc_data = calculate_wacc(ticker), returned as it is when an error;
\* wacc = wacc_override or wacc_decimal
DcfWacc ==
    /\ pc = "dcf_wacc"
    /\ LET wacc_data == calculate_wacc(adapter, NoneV, NoneV, NoneV)
       IN  IF IsError(wacc_data)
           THEN /\ result' = wacc_data
                /\ pc' = "returned"
                /\ frame' = frame
           ELSE /\ frame' = [wacc_data |-> wacc_data,
                             wacc |-> Or(args.wacc_override,
                                         wacc_data.wacc_decimal)]
                /\ pc' = "dcf_project"
                /\ result' = result
    /\ UNCHANGED << adapter, args, database, cerebro >>

\* projections = project_financials(...), returned as it is when an error
DcfProject ==
    /\ pc = "dcf_project"
    /\ LET projections == project_financials(adapter, args.years,
                              args.revenue_growth_rates, args.operating_margin_targets)
       IN  IF IsError(projections)
           THEN /\ result' = projections
                /\ pc' = "returned"
                /\ frame' = frame
           ELSE /\ frame' = [projections |-> projections] @@ frame
                /\ pc' = "dcf_historical"
                /\ result' = result
    /\ UNCHANGED << adapter, args, database, cerebro >>

\* historical = get_historical_financials(ticker, 1); terminal_growth
DcfHistorical ==
    /\ pc = "dcf_historical"
    /\ LET historical == get_historical_financials(adapter, 1)
       IN  IF IsError(historical)
           THEN /\ result' = historical
                /\ pc' = "returned"
                /\ frame' = frame
           ELSE /\ frame' = [historical |-> historical,
                             terminal_growth |->
                                 Or(args.terminal_growth_rate, DEFAULT_TERMINAL_GROWTH),
                             i |-> 0, pv_fcfs |-> << >>, total_pv_fcf |-> Zero]
                             @@ frame
                /\ pc' = "dcf_discount"
                /\ result' = result
    /\ UNCHANGED << adapter, args, database, cerebro >>

\* One pass of `for i, fcf in enumerate(projections["free_cash_flow"])`.
DcfDiscount ==
    /\ pc = "dcf_discount"
    /\ frame.i < Len(frame.projections.free_cash_flow)
    /\ LET fcf == frame.projections.free_cash_flow[frame.i + 1]
           discount_factor == DiscountFactor(frame.wacc, frame.i)
       IN  IF discount_factor = Zero
           THEN /\ result' = TryExcept(Raised("float division by zero"))
                /\ pc' = "returned"
                /\ frame' = frame
           ELSE /\ frame' = [frame EXCEPT
                                !.i = @ + 1,
                                !.pv_fcfs = Append(@, RoundTo(RDiv(fcf, discount_factor), 7)),
                                !.total_pv_fcf = RAdd(@, RDiv(fcf, discount_factor))]
                /\ pc' = pc
                /\ result' = result
    /\ UNCHANGED << adapter, args, database, cerebro >>

\* After the loop: the terminal value, the valuation and the return.
DcfReturn ==
    /\ pc = "dcf_discount"
    /\ frame.i = Len(frame.projections.free_cash_flow)
    /\ LET v == DcfValuation(frame, args.years)
       IN  /\ frame' = v @@ frame
           /\ result' = v.ret
    /\ pc' = "returned"
    /\ UNCHANGED << adapter, args, database, cerebro >>

\* sensitivity_analysis is entered: the two grids are laid out.
SaCall ==
    /\ pc = "idle"
    /\ \E d \in SensArgs(adapter) :
          /\ args' = [op |-> "sensitivity_analysis"] @@ d
          /\ frame' = [wacc_values |-> Linspace(d.wacc_range, d.steps),
                       growth_values |-> Linspace(d.growth_range, d.steps),
                       fetches |-> 0]
    /\ pc' = "sa_project"
    /\ result' = [kind |-> "pending"]
    /\ UNCHANGED << adapter, database, cerebro >>

\* projections = project_financials(ticker, 5), which asks the adapter
SaProject ==
    /\ pc = "sa_project"
    /\ LET projections == project_financials(adapter, 5, NoList, NoList)
       IN  IF IsError(projections)
           THEN /\ result' = projections
                /\ pc' = "returned"
                /\ frame' = [frame EXCEPT !.fetches = @ + 1]
           ELSE /\ frame' = [projections |-> projections,
                             fetches |-> frame.fetches + 1] @@ frame
                /\ pc' = "sa_historical"
                /\ result' = result
    /\ UNCHANGED << adapter, args, database, cerebro >>

\* historical = get_historical_financials(ticker, 1), which asks the adapter
\* again; shares_outstanding, net_debt, current_price
SaHistorical ==
    /\ pc = "sa_historical"
    /\ LET historical == get_historical_financials(adapter, 1)
       IN  IF IsError(historical)
           THEN /\ result' = historical
                /\ pc' = "returned"
                /\ frame' = [frame EXCEPT !.fetches = @ + 1]
           ELSE IF ~IsNum(historical.total_debt) \/ ~IsNum(historical.total_cash)
           THEN /\ result' = TryExcept(Raised("unsupported operand type(s)"))
                /\ pc' = "returned"
                /\ frame' = [frame EXCEPT !.fetches = @ + 1]
           ELSE /\ frame' = [historical |-> historical,
                             shares_outstanding |-> historical.shares_outstanding,
                             net_debt |-> RSub(historical.total_debt,
                                               historical.total_cash),
                             current_price |-> historical.current_price,
                             matrix |-> << >>, row |-> << >>,
                             fetches |-> frame.fetches + 1] @@ frame
                /\ pc' = "sa_cell"
                /\ result' = result
    /\ UNCHANGED << adapter, args, database, cerebro >>

\* A pass of the inner loop that projects anew for its cell.
SaCell_Reprojecting ==
    /\ pc = "sa_cell"
    /\ Len(frame.matrix) < args.steps
    /\ LET wacc == frame.wacc_values[Len(frame.matrix) + 1]
           growth == frame.growth_values[Len(frame.row) + 1]
           projections == project_financials(adapter, 5, NoList, NoList)
           row == Append(frame.row,
                         SensitivityCell(projections.free_cash_flow, wacc,
                                         growth, frame.net_debt,
                                         frame.shares_outstanding))
       IN  IF RAdd(One, wacc) = Zero
           THEN /\ result' = TryExcept(Raised("float division by zero"))
                /\ pc' = "returned"
                /\ frame' = frame
           ELSE /\ frame' = IF Len(row) = args.steps
                            THEN [frame EXCEPT !.matrix = Append(@, row),
                                               !.row = << >>,
                                               !.projections = projections,
                                               !.fetches = @ + 1]
                            ELSE [frame EXCEPT !.row = row,
                                               !.projections = projections,
                                               !.fetches = @ + 1]
                /\ pc' = pc
                /\ result' = result
    /\ UNCHANGED << adapter, args, database, cerebro >>

\* One pass of the inner loop: the cell of the next WACC and growth; a
\* complete row goes to the matrix.
SaCell ==
    /\ pc = "sa_cell"
    /\ Len(frame.matrix) < args.steps
    /\ LET wacc == frame.wacc_values[Len(frame.matrix) + 1]
           growth == frame.growth_values[Len(frame.row) + 1]
           row == Append(frame.row,
                         SensitivityCell(frame.projections.free_cash_flow, wacc,
                                         growth, frame.net_debt,
                                         frame.shares_outstanding))
       IN  IF RAdd(One, wacc) = Zero
           THEN /\ result' = TryExcept(Raised("float division by zero"))
                /\ pc' = "returned"
                /\ frame' = frame
           ELSE /\ frame' = IF Len(row) = args.steps
                            THEN [frame EXCEPT !.matrix = Append(@, row),
                                               !.row = << >>]
                            ELSE [frame EXCEPT !.row = row]
                /\ pc' = pc
                /\ result' = result
    /\ UNCHANGED << adapter, args, database, cerebro >>

\* After the loops: the matrix with its labels and the current price.
SaReturn ==
    /\ pc = "sa_cell"
    /\ Len(frame.matrix) = args.steps
    /\ result' =
          IF ~IsNum(frame.current_price)
          THEN TryExcept(Raised("type NoneType doesn't define __round__ method"))
          ELSE [kind |-> "sensitivity",
                current_price |-> RoundTo(frame.current_price, 2),
                wacc_values |-> [j \in 1..args.steps |-> Pct(frame.wacc_values[j], 1)],
                growth_values |->
                    [j \in 1..args.steps |-> Pct(frame.growth_values[j], 1)],
                matrix |-> frame.matrix]
    /\ pc' = "returned"
    /\ UNCHANGED << adapter, args, frame, database, cerebro >>

\* A whole call of calculate_var.
CallVar ==
    /\ pc = "idle"
    /\ \E confidence \in Confidences, holding_period \in HoldingPeriods,
          method \in Methods :
          /\ args' = [op |-> "calculate_var", confidence |-> confidence,
                      holding_period |-> holding_period, method |-> method]
          /\ frame' = IF get_returns(adapter) = << >> \/ Fault(adapter) = "info"
                      THEN [returns |-> get_returns(adapter)]
                      ELSE VarLocals(adapter, confidence, holding_period, method)
          /\ result' = calculate_var(adapter, confidence, holding_period, method)
    /\ pc' = "returned"
    /\ UNCHANGED << adapter, database, cerebro >>

\* A whole call of calculate_sharpe_ratio.
CallSharpe ==
    /\ pc = "idle"
    /\ \E risk_free_rate \in RiskRates :
          /\ args' = [op |-> "calculate_sharpe_ratio",
                      risk_free_rate |-> risk_free_rate]
          /\ frame' = IF get_returns(adapter) = << >>
                      THEN [returns |-> << >>]
                      ELSE SharpeLocals(adapter, risk_free_rate)
          /\ result' = calculate_sharpe_ratio(adapter, risk_free_rate)
    /\ pc' = "returned"
    /\ UNCHANGED << adapter, database, cerebro >>

\* A whole call of calculate_max_drawdown.
CallDrawdown ==
    /\ pc = "idle"
    /\ args' = [op |-> "calculate_max_drawdown"]
    /\ frame' = IF adapter.closes = << >> \/ Fault(adapter) = "history"
                THEN [prices |-> << >>]
                ELSE DrawdownLocals(adapter)
    /\ result' = calculate_max_drawdown(adapter)
    /\ pc' = "returned"
    /\ UNCHANGED << adapter, database, cerebro >>

\* A whole call of calculate_volatility.
CallVolatility ==
    /\ pc = "idle"
    /\ \E window \in Windows :
          /\ args' = [op |-> "calculate_volatility", window |-> window]
          /\ frame' = IF get_returns(adapter) = << >>
                      THEN [returns |-> << >>]
                      ELSE VolatilityLocals(adapter, window)
          /\ result' = calculate_volatility(adapter, window)
    /\ pc' = "returned"
    /\ UNCHANGED << adapter, database, cerebro >>

\* A whole call of calculate_beta_alpha.
CallBeta ==
    /\ pc = "idle"
    /\ \E ticker \in Tickers, benchmark \in Tickers :
          /\ args' = [op |-> "calculate_beta_alpha", ticker |-> ticker,
                      benchmark |-> benchmark]
          /\ frame' = IF calculate_beta_alpha(adapter, ticker, benchmark).kind
                         = "error"
                      THEN [stock_returns |-> DatedReturns(adapter, ticker),
                            market_returns |-> DatedReturns(adapter, benchmark)]
                      ELSE BetaLocals(adapter, ticker, benchmark)
          /\ result' = calculate_beta_alpha(adapter, ticker, benchmark)
    /\ pc' = "returned"
    /\ UNCHANGED << adapter, database, cerebro >>

\* A whole call of correlation_matrix.
CallCorrelation ==
    /\ pc = "idle"
    /\ \E tickers \in TickerLists :
          /\ args' = [op |-> "correlation_matrix", tickers |-> tickers]
          /\ frame' = [returns_dict |-> CorrelationKeys(adapter, tickers)]
          /\ result' = correlation_matrix(adapter, tickers)
    /\ pc' = "returned"
    /\ UNCHANGED << adapter, database, cerebro >>

\* A whole call of get_historical_financials.
CallHistorical ==
    /\ pc = "idle"
    /\ \E years \in 1..MaxYears :
          /\ args' = [op |-> "get_historical_financials", years |-> years]
          /\ result' = get_historical_financials(adapter, years)
    /\ frame' = [op |-> "get_historical_financials"]
    /\ pc' = "returned"
    /\ UNCHANGED << adapter, database, cerebro >>

\* A whole call of get_dcf_summary.
CallDcfSummary ==
    /\ pc = "idle"
    /\ args' = [op |-> "get_dcf_summary"]
    /\ frame' = [dcf |-> calculate_dcf(adapter, DcfDefaults)]
    /\ result' = get_dcf_summary(adapter)
    /\ pc' = "returned"
    /\ UNCHANGED << adapter, database, cerebro >>

\* A whole call of get_returns.
CallReturns ==
    /\ pc = "idle"
    /\ args' = [op |-> "get_returns"]
    /\ frame' = [op |-> "get_returns"]
    /\ result' = [kind |-> "series", values |-> get_returns(adapter)]
    /\ pc' = "returned"
    /\ UNCHANGED << adapter, database, cerebro >>

\* A whole call of get_risk_summary.
CallRiskSummary ==
    /\ pc = "idle"
    /\ args' = [op |-> "get_risk_summary"]
    /\ frame' = [parts |-> RiskSummaryParts(adapter)]
    /\ result' = get_risk_summary(adapter)
    /\ pc' = "returned"
    /\ UNCHANGED << adapter, database, cerebro >>

\* DatabaseManager() in a new process: _init_database runs again.
DatabaseManagerInit ==
    /\ pc = "idle"
    /\ database.sqlite_sequence.watchlists < MaxWatchlists
    /\ database' = init_database(database)
    /\ UNCHANGED << adapter, pc, args, frame, result, cerebro >>

\* A whole call of create_watchlist.
CallCreateWatchlist ==
    /\ pc = "idle"
    /\ database.sqlite_sequence.watchlists < MaxWatchlists
    /\ \E name \in WatchlistNames :
          /\ args' = [op |-> "create_watchlist", name |-> name]
          /\ database' = create_watchlist(database, name).db
          /\ result' = create_watchlist(database, name).ret
    /\ pc' = "returned"
    /\ UNCHANGED << adapter, frame, cerebro >>

\* A whole call of delete_watchlist.
CallDeleteWatchlist ==
    /\ pc = "idle"
    /\ \E watchlist_id \in WatchlistIds :
          /\ args' = [op |-> "delete_watchlist", watchlist_id |-> watchlist_id]
          /\ database' = delete_watchlist(database, watchlist_id).db
          /\ result' = delete_watchlist(database, watchlist_id).ret
    /\ pc' = "returned"
    /\ UNCHANGED << adapter, frame, cerebro >>

\* A whole call of add_to_watchlist.
CallAddToWatchlist ==
    /\ pc = "idle"
    /\ database.sqlite_sequence.watchlist_items < MaxItems
    /\ \E ticker \in RawTickers, watchlist_id \in WatchlistIds :
          /\ args' = [op |-> "add_to_watchlist", ticker |-> ticker,
                      watchlist_id |-> watchlist_id]
          /\ database' = add_to_watchlist(database, ticker, watchlist_id).db
          /\ result' = add_to_watchlist(database, ticker, watchlist_id).ret
    /\ pc' = "returned"
    /\ UNCHANGED << adapter, frame, cerebro >>

\* A whole call of remove_from_watchlist.
CallRemoveFromWatchlist ==
    /\ pc = "idle"
    /\ \E ticker \in RawTickers, watchlist_id \in WatchlistIds :
          /\ args' = [op |-> "remove_from_watchlist", ticker |-> ticker,
                      watchlist_id |-> watchlist_id]
          /\ database' =
                 remove_from_watchlist(database, ticker, watchlist_id).db
          /\ result' =
                 remove_from_watchlist(database, ticker, watchlist_id).ret
    /\ pc' = "returned"
    /\ UNCHANGED << adapter, frame, cerebro >>

\* A whole call of get_watchlist.
CallGetWatchlist ==
    /\ pc = "idle"
    /\ \E watchlist_id \in WatchlistIds :
          /\ args' = [op |-> "get_watchlist", watchlist_id |-> watchlist_id]
          /\ result' = get_watchlist(database, watchlist_id)
    /\ pc' = "returned"
    /\ UNCHANGED << adapter, frame, database, cerebro >>

\* A whole call of get_watchlist_items.
CallGetWatchlistItems ==
    /\ pc = "idle"
    /\ \E watchlist_id \in WatchlistIds :
          /\ args' = [op |-> "get_watchlist_items",
                      watchlist_id |-> watchlist_id]
          /\ result' = [kind |-> "items",
                        items |-> get_watchlist_items(database, watchlist_id)]
    /\ pc' = "returned"
    /\ UNCHANGED << adapter, frame, database, cerebro >>

\* The caller takes the result of a WatchlistManager method.
StorageRelease ==
    /\ pc = "returned"
    /\ pc' = "idle"
    /\ args' = [op |-> "none"]
    /\ result' = [kind |-> "none"]
    /\ UNCHANGED << adapter, frame, database, cerebro >>

\* Cerebro hands the strategy the next queued notification.
CerebroNotify ==
    /\ cerebro.running
    /\ cerebro.notifs # << >>
    /\ cerebro' = [notify_order(cerebro, Head(cerebro.notifs).status)
                       EXCEPT !.notifs = Tail(@)]
    /\ UNCHANGED << adapter, pc, args, frame, result, database >>

\* A bar: the queued notifications have been handed over and cerebro calls
\* next() with the indicators of the bar.
CerebroNext ==
    /\ cerebro.running
    /\ cerebro.notifs = << >>
    /\ Len(cerebro.orders) < MaxOrders
    /\ \E buy_signal \in BOOLEAN, sell_signal \in BOOLEAN :
          cerebro' = next(cerebro, buy_signal, sell_signal)
    /\ UNCHANGED << adapter, pc, args, frame, result, database >>

\* The broker moves an order on.
BrokerStep ==
    /\ cerebro.running
    /\ \E ref \in Pending(cerebro) :
          \E status \in NextStatuses(cerebro.orders[ref].status) :
              cerebro' = BrokerUpdate(cerebro, ref, status)
    /\ UNCHANGED << adapter, pc, args, frame, result, database >>

\* The adapter's data changes while a call is running (every call asks
\* yf.Ticker again, and nothing holds the data still in between).
AdapterChange ==
    /\ pc \notin { "idle", "returned" }
    /\ adapter' \in ConcAdapters \ { adapter }
    /\ UNCHANGED << pc, args, frame, result, database, cerebro >>

\* calculate_dcf over the histories and the market data it reads.
Init == adapter \in Adapters /\ Idle

Next ==
    \/ DcfCall
    \/ DcfWacc
    \/ DcfProject
    \/ DcfHistorical
    \/ DcfDiscount
    \/ DcfReturn
    \/ Release

Spec == Init /\ [][Next]_vars

\* calculate_wacc alone, over the capital structures.
InitWacc == adapter \in WaccAdapters /\ Idle

NextWacc == CallWacc \/ Release

SpecWacc == InitWacc /\ [][NextWacc]_vars

\* sensitivity_analysis alone.
NextSens == SaCall \/ SaProject \/ SaHistorical \/ SaCell \/ SaReturn \/ Release

SpecSens == Init /\ [][NextSens]_vars

\* The three entry points of the valuation, over the same adapters.
NextAll == Next \/ CallProject \/ NextSens

SpecAll == Init /\ [][NextAll]_vars

\* calculate_dcf and sensitivity_analysis while the adapter's data changes.
InitConc == adapter \in ConcAdapters /\ Idle

NextConc == Next \/ NextSens \/ AdapterChange

SpecConc == InitConc /\ [][NextConc]_vars

\* The risk analytics, over the price histories.
InitRisk == adapter \in RiskAdapters /\ Idle

NextRisk ==
    CallVar \/ CallSharpe \/ CallDrawdown \/ CallVolatility \/ Release

SpecRisk == InitRisk /\ [][NextRisk]_vars

\* The risk functions over the histories of several tickers.
InitMarket == adapter \in MarketAdapters /\ Idle
NextMarket ==
    \/ CallVar \/ CallSharpe \/ CallDrawdown \/ CallVolatility
    \/ CallBeta \/ CallCorrelation \/ Release
SpecMarket == InitMarket /\ [][NextMarket]_vars

\* Every public function of DCFModel and of RiskAnalytics, over adapters
\* that answer with missing fields or raise.
AnswersDcf == "income" \in DOMAIN adapter
InitBoundary == adapter \in BoundaryAdapters /\ Idle
NextBoundary ==
    \/ /\ AnswersDcf
       /\ \/ CallHistorical \/ CallWacc \/ CallProject \/ CallDcfSummary
          \/ DcfCall \/ DcfWacc \/ DcfProject \/ DcfHistorical
          \/ DcfDiscount \/ DcfReturn
          \/ SaCall \/ SaProject \/ SaHistorical \/ SaCell \/ SaReturn
    \/ /\ ~AnswersDcf
       /\ \/ CallReturns \/ CallVar \/ CallSharpe \/ CallDrawdown
          \/ CallVolatility \/ CallBeta \/ CallCorrelation \/ CallRiskSummary
    \/ Release
SpecBoundary == InitBoundary /\ [][NextBoundary]_vars

\* calculate_beta_alpha alone, over histories around 30 observations.
InitBeta == adapter \in BetaAdapters /\ Idle
NextBeta == CallBeta \/ Release
SpecBeta == InitBeta /\ [][NextBeta]_vars

\* The three functions that take overrides of their defaults.
OverrideAdapters ==
    { a \in Adapters : a.income = BaseIncome } \cup RiskAdapters
InitOverrides == adapter \in OverrideAdapters /\ Idle
NextOverrides ==
    \/ /\ AnswersDcf
       /\ \/ CallWacc
          \/ DcfCall \/ DcfWacc \/ DcfProject \/ DcfHistorical
          \/ DcfDiscount \/ DcfReturn
    \/ /\ ~AnswersDcf
       /\ CallSharpe
    \/ Release
SpecOverrides == InitOverrides /\ [][NextOverrides]_vars

\* WatchlistManager over one database file.
NoAdapter == [ticker |-> "none"]
InitStorage ==
    /\ adapter = NoAdapter
    /\ NoCall
    /\ database \in Databases
    /\ cerebro = NoCerebro
NextStorage ==
    \/ DatabaseManagerInit
    \/ CallCreateWatchlist \/ CallDeleteWatchlist
    \/ CallAddToWatchlist \/ CallRemoveFromWatchlist
    \/ CallGetWatchlist \/ CallGetWatchlistItems
    \/ StorageRelease
SpecStorage == InitStorage /\ [][NextStorage]_vars

\* A backtest of each of the four strategies.
InitStrategies ==
    /\ adapter = NoAdapter
    /\ NoCall
    /\ database = NoDatabase
    /\ cerebro \in { NewCerebro(strategy) : strategy \in Strategies }
NextStrategies == CerebroNotify \/ CerebroNext \/ BrokerStep
SpecStrategies == InitStrategies /\ [][NextStrategies]_vars

\* project_financials alone, over the wider range of histories.
InitProject == adapter \in ProjectAdapters /\ Idle

NextProject == CallProject \/ Release

SpecProject == InitProject /\ [][NextProject]_vars

(***************************************************************************)
(* Properties of calculate_dcf (specification Spec).                       *)
(***************************************************************************)
\* calculate_dcf has returned.
DcfReturned == pc = "returned" /\ args.op = "calculate_dcf"

\* calculate_dcf has returned a valuation.
DcfValued == DcfReturned /\ result.kind = "valuation"

\* C1 (as claimed): a call of calculate_dcf whose effective WACC (the
\* override, or the computed WACC) is less than or equal to the effective
\* terminal growth rate returns an error result and no valuation.
C1_ErrorUnlessWaccAboveGrowth ==
    (/\ DcfReturned
     /\ "terminal_growth" \in DOMAIN frame
     /\ RLe(frame.wacc, frame.terminal_growth))
    => IsError(result)

\* enterprise_value - (pv_of_fcfs + pv_of_terminal_value) of the returned
\* valuation, in units of 0.01 billion.
ReturnedEvGap ==
    RSub(result.enterprise_value,
         RAdd(result.pv_of_fcfs, result.pv_of_terminal_value))

\* C2 (as claimed): in a valuation returned for WACC > terminal growth, the
\* enterprise value equals the present value of the projected FCFs plus the
\* present value of the terminal value.
C2_EnterpriseValueExact ==
    (DcfValued /\ RLt(frame.terminal_growth, frame.wacc))
    => ReturnedEvGap = Zero

\* C2 (amended): for WACC > terminal growth the enterprise value the function
\* computes is exactly the sum of the two present values; the three returned
\* figures are each rounded to 0.01 billion, so the returned enterprise value
\* is within 0.01 billion of the sum of the two returned present values.
C2_EnterpriseValueWithinRounding ==
    (DcfValued /\ RLt(frame.terminal_growth, frame.wacc))
    => /\ frame.enterprise_value = RAdd(frame.total_pv_fcf, frame.pv_terminal)
       /\ result.enterprise_value = RoundTo(frame.enterprise_value, 0)
       /\ result.pv_of_fcfs = RoundTo(frame.total_pv_fcf, 0)
       /\ result.pv_of_terminal_value = RoundTo(frame.pv_terminal, 0)
       /\ RLe(RAbs(ReturnedEvGap), One)

\* C2 witness: a valuation for WACC > terminal growth whose returned
\* enterprise value is not the sum of the returned present values.
C2_RoundedApart ==
    /\ DcfValued
    /\ RLt(frame.terminal_growth, frame.wacc)
    /\ ReturnedEvGap # Zero

\* C3 (as claimed): a call that reaches the valuation with numeric debt, cash
\* and price returns a valuation (no error result) in which net debt = total
\* debt - total cash, equity value = enterprise value - net debt, and the
\* value per share is equity value / shares outstanding, or exactly 0 when
\* shares outstanding is 0 or missing.
C3_EquityAndPerShareValue ==
    (/\ DcfReturned
     /\ "total_pv_fcf" \in DOMAIN frame
     /\ frame.i > 0
     /\ frame.i = Len(frame.projections.free_cash_flow)
     /\ frame.wacc # frame.terminal_growth
     /\ IsNum(frame.historical.total_debt)
     /\ IsNum(frame.historical.total_cash)
     /\ IsNum(frame.historical.current_price))
    => /\ result.kind = "valuation"
       /\ frame.net_debt =
              RSub(frame.historical.total_debt, frame.historical.total_cash)
       /\ frame.equity_value = RSub(frame.enterprise_value, frame.net_debt)
       /\ frame.intrinsic_value_per_share =
              IF Truthy(frame.historical.shares_outstanding)
              THEN RDiv(frame.equity_value, frame.historical.shares_outstanding)
              ELSE Zero

RECURSIVE PresentValueSum(_, _, _)
PresentValueSum(fcfs, wacc, n) ==
    IF n = 0 THEN Zero
    ELSE RAdd(PresentValueSum(fcfs, wacc, n - 1),
              RDiv(fcfs[n], RPow(RAdd(One, wacc), n)))

\* C10: calculate_dcf discounts the FCF of projection year i by (1 + WACC)^i
\* for i = 1..projection_years (after i passes of the loop the total is the
\* sum of the first i discounted FCFs), takes the terminal value as
\* finalYearFCF * (1 + g) / (WACC - g), and discounts it by
\* (1 + WACC)^projection_years.
C10_Discounting ==
    /\ ((pc = "dcf_discount" \/ DcfValued)
        => /\ frame.total_pv_fcf =
                  PresentValueSum(frame.projections.free_cash_flow, frame.wacc,
                                  frame.i)
           /\ \A k \in 1..frame.i :
                 frame.pv_fcfs[k] =
                     RoundTo(RDiv(frame.projections.free_cash_flow[k],
                                  RPow(RAdd(One, frame.wacc), k)), 7))
    /\ (DcfValued
        => /\ frame.i = args.years
           /\ result.pv_free_cash_flow = frame.pv_fcfs
           /\ frame.terminal_value =
                  RDiv(RMul(frame.projections.free_cash_flow[args.years],
                            RAdd(One, frame.terminal_growth)),
                       RSub(frame.wacc, frame.terminal_growth))
           /\ frame.pv_terminal =
                  RDiv(frame.terminal_value,
                       RPow(RAdd(One, frame.wacc), args.years))
           /\ result.terminal_value = RoundTo(frame.terminal_value, 0)
           /\ result.pv_of_terminal_value = RoundTo(frame.pv_terminal, 0))

\* C10 witness: a valuation over 3 years or more at an overridden WACC and a
\* terminal growth rate of the caller.
C10_ThreeYearsDiscounted ==
    /\ DcfValued
    /\ args.years >= 3
    /\ frame.wacc = R(25, 100)
    /\ frame.terminal_growth = R(3, 100)
    /\ Len(frame.pv_fcfs) = args.years

(***************************************************************************)
(* Properties of the three entry points together (specification SpecAll).  *)
(***************************************************************************)
\* C14: when the adapter has no historical financials for the ticker,
\* calculate_dcf, project_financials and sensitivity_analysis each return an
\* error result that identifies the ticker (in its message or under a
\* "ticker" key), never a valuation, a projection or a matrix.
C14_NoFinancialsIsAnError ==
    (/\ pc = "returned"
     /\ args.op \in { "calculate_dcf", "project_financials",
                      "sensitivity_analysis" }
     /\ adapter.income = << >>)
    => /\ IsError(result)
       /\ result.names \/ result.ticker

\* C14 witness: sensitivity_analysis has returned the error for a ticker
\* without financials.
C14_SensitivityWithoutFinancials ==
    /\ pc = "returned"
    /\ args.op = "sensitivity_analysis"
    /\ args.steps > 0
    /\ adapter.income = << >>
    /\ IsError(result)

(***************************************************************************)
(* Properties of sensitivity_analysis (specification SpecSens).            *)
(***************************************************************************)
\* sensitivity_analysis has returned a matrix.
SensReturned ==
    /\ pc = "returned"
    /\ args.op = "sensitivity_analysis"
    /\ result.kind = "sensitivity"

\* The cells computed so far, as << i, j, value >> for the i-th WACC and the
\* j-th growth.
CellsSoFar ==
    { << i, j, frame.matrix[i][j] >> :
         i \in 1..Len(frame.matrix), j \in 1..args.steps }
    \cup { << Len(frame.matrix) + 1, j, frame.row[j] >> : j \in 1..Len(frame.row) }

\* C15: once the grid loop is entered, sensitivity_analysis computes all
\* steps x steps cells and returns them (no cell ends the call with an
\* error); every cell is a number, and a cell whose WACC <= growth is the
\* value per share with a PV of terminal value of 0.
C15_FullMatrix ==
    /\ (pc = "sa_cell" \/ SensReturned)
       => \A c \in CellsSoFar :
             /\ IsNum(c[3])
             /\ RLe(frame.wacc_values[c[1]], frame.growth_values[c[2]])
                => c[3] =
                     RoundTo(
                       IF Truthy(frame.shares_outstanding)
                       THEN RDiv(RSub(PresentValueSum(
                                          frame.projections.free_cash_flow,
                                          frame.wacc_values[c[1]], 5),
                                      frame.net_debt),
                                 frame.shares_outstanding)
                       ELSE Zero, 2)
    /\ (pc = "returned" /\ args.op = "sensitivity_analysis"
            /\ "matrix" \in DOMAIN frame)
       => /\ Len(frame.matrix) = args.steps
          /\ \A i \in 1..args.steps : Len(frame.matrix[i]) = args.steps
          /\ IsNum(frame.current_price)
                => /\ result.kind = "sensitivity"
                   /\ result.matrix = frame.matrix

\* C15 witness: a returned matrix of 3 x 3 or more with a cell whose WACC is
\* below its growth and a cell whose WACC equals it.
C15_GridAcrossTheDiagonal ==
    /\ SensReturned
    /\ args.steps >= 3
    /\ \E i, j \in 1..args.steps :
          RLt(frame.wacc_values[i], frame.growth_values[j])
    /\ \E i, j \in 1..args.steps :
          /\ frame.wacc_values[i] = frame.growth_values[j]
          /\ frame.wacc_values[i] # Zero

\* The index of the midpoint of a grid of an odd number of steps.
Midpoint == (args.steps + 1) \div 2

\* calculate_dcf on the adapter's data with the defaults of the projection,
\* at the WACC and the growth of the grid's midpoint.
DcfAtMidpoint ==
    calculate_dcf(adapter,
                  [years |-> 5,
                   revenue_growth_rates |-> NoList,
                   operating_margin_targets |-> NoList,
                   terminal_growth_rate |-> frame.growth_values[Midpoint],
                   wacc_override |-> frame.wacc_values[Midpoint]])

\* C17: for the same adapter data and the default growth rates and margin
\* targets, the cell at the midpoint of the grid (WACC w, growth g, w > g)
\* is the intrinsic value per share that calculate_dcf returns for
\* wacc_override = w and terminal_growth_rate = g.
C17_MidpointCellIsTheDcfValue ==
    (/\ SensReturned
     /\ args.steps % 2 = 1
     /\ RLt(frame.growth_values[Midpoint], frame.wacc_values[Midpoint]))
    => /\ DcfAtMidpoint.kind = "valuation"
       /\ result.matrix[Midpoint][Midpoint] =
              DcfAtMidpoint.intrinsic_value_per_share

(***************************************************************************)
(* Properties of calls during which the adapter's data changes             *)
(* (specification SpecConc).                                               *)
(***************************************************************************)
\* The grid loop of sensitivity_analysis is running or has run.
InGridLoop ==
    /\ args.op = "sensitivity_analysis"
    /\ pc \in { "sa_cell", "returned" }
    /\ "matrix" \in DOMAIN frame

\* The value per share of the FCF series `fcfs` at one WACC and growth, as
\* a cell reports it.
ValuePerShareOf(fcfs, wacc, growth) ==
    LET pv_tv == IF RLt(growth, wacc)
                 THEN RDiv(RDiv(RMul(fcfs[5], RAdd(One, growth)),
                                RSub(wacc, growth)),
                           RPow(RAdd(One, wacc), 5))
                 ELSE Zero
        equity == RSub(RAdd(PresentValueSum(fcfs, wacc, 5), pv_tv),
                       frame.net_debt)
    IN  RoundTo(IF Truthy(frame.shares_outstanding)
                THEN RDiv(equity, frame.shares_outstanding) ELSE Zero, 2)

C18_OneSnapshot ==
    DcfValued
    => \E a \in ConcAdapters : result = calculate_dcf(a, args)

(***************************************************************************)
(* Properties of the risk analytics (specification SpecRisk).              *)
(***************************************************************************)
\* calculate_var has returned its figures.
VarReturned ==
    /\ pc = "returned"
    /\ args.op = "calculate_var"
    /\ result.kind = "var"

\* C19: for the historical method and every non-empty return series,
\* calculate_var reports cvar_percent >= var_percent, also when the
\* (1 - confidence) percentile of the returns is positive.
C19_CvarAtLeastVar ==
    (VarReturned /\ args.method = "historical")
    => RLe(result.var_percent, result.cvar_percent)

\* calculate_sharpe_ratio has returned, for a ticker with returns.
SharpeReturned ==
    /\ pc = "returned"
    /\ args.op = "calculate_sharpe_ratio"
    /\ frame.returns # << >>

\* The returns read have no volatility: they are all the same.
ZeroVolatility == \A i, j \in 1..Len(frame.returns) : frame.returns[i] = frame.returns[j]

\* C20: for a return series with zero volatility (a flat price series, or
\* any series of equal returns) calculate_sharpe_ratio returns a result, not
\* an error, whose sharpe_ratio and sortino_ratio are the number 0, whatever
\* the risk-free rate.
C20_ZeroVolatilitySentinel ==
    (SharpeReturned /\ ZeroVolatility)
    => /\ result.kind = "sharpe"
       /\ result.sharpe_ratio = Zero
       /\ result.sortino_ratio = Zero

\* C20 witness: calculate_sharpe_ratio has returned for a flat price series
\* of 3 days or more, whose volatility it reports as 0.
C20_FlatPrices ==
    /\ SharpeReturned
    /\ Len(adapter.closes) >= 3
    /\ \A i \in 1..Len(adapter.closes) : adapter.closes[i] = 100
    /\ result.annual_volatility_percent = Zero
    /\ result.sharpe_ratio = Zero

\* calculate_max_drawdown has returned a drawdown report.
DrawdownReturned ==
    /\ pc = "returned"
    /\ args.op = "calculate_max_drawdown"
    /\ result.kind = "drawdown"

\* The history falls from every day to the next.
Declining ==
    /\ Len(adapter.closes) >= 2
    /\ \A i \in 1..(Len(adapter.closes) - 1) :
           adapter.closes[i + 1] < adapter.closes[i]

\* C21 (as claimed): on a monotonically declining price series the reported
\* current drawdown is larger than the reported max drawdown.
C21_DecliningCurrentExceedsMax ==
    (DrawdownReturned /\ Declining) =>
        RLt(result.max_drawdown_percent, result.current_drawdown_percent)

\* C21 (amended): the reported current drawdown never exceeds the reported
\* max drawdown, and on a monotonically declining price series the two are
\* equal.
C21_CurrentAtMostMax ==
    DrawdownReturned =>
        /\ RLe(result.current_drawdown_percent, result.max_drawdown_percent)
        /\ Declining =>
               result.current_drawdown_percent = result.max_drawdown_percent

\* C21 witness: a report for a declining history, whose last day is its
\* deepest drawdown.
C21_DecliningHistory ==
    /\ DrawdownReturned
    /\ Declining
    /\ frame.max_dd_idx = Len(adapter.closes)
    /\ RLt(Zero, result.current_drawdown_percent)

\* The first day strictly after the trough whose price is as high as the
\* running maximum at the trough, 0 when there is none.
FirstRecoveryAfterTrough ==
    LET peak == frame.running_max[frame.max_dd_idx]
        at == { i \in (frame.max_dd_idx + 1)..Len(frame.prices) :
                    RLe(peak, frame.prices[i]) }
    IN  IF at = { } THEN 0 ELSE CHOOSE i \in at : \A j \in at : i <= j

\* C22: recovered is true exactly when some price strictly after the trough
\* date is at least the running maximum at the trough; recovery_days is then
\* the number of days from the trough to the first such price, and is null
\* otherwise.
C22_RecoveryAfterTheTrough ==
    DrawdownReturned =>
        /\ result.recovered = (FirstRecoveryAfterTrough # 0)
        /\ result.recovery_days =
               IF FirstRecoveryAfterTrough # 0
               THEN I(TradingDay(FirstRecoveryAfterTrough)
                        - TradingDay(frame.max_dd_idx))
               ELSE NoneV

\* calculate_var has returned for a ticker whose return series is empty:
\* no price history, a single price, or a fetch that raised.
VarOfEmptyReturns ==
    /\ pc = "returned"
    /\ args.op = "calculate_var"
    /\ \/ Len(adapter.closes) <= 1
       \/ Fault(adapter) = "history"

\* C27: whenever the ticker's return series is empty, calculate_var returns
\* an explicit error result and no VaR or CVaR figure.
C27_EmptyReturnsIsAnError ==
    VarOfEmptyReturns =>
        /\ result.kind = "error"
        /\ result.error = "No data for <ticker>"
        /\ DOMAIN result \cap
               { "var_percent", "var_dollar_per_share", "cvar_percent" } = { }

\* C27 witness: the fetch of a ticker with a price history raised and the
\* error came back.
C27_FailedFetch ==
    /\ VarOfEmptyReturns
    /\ Len(adapter.closes) >= 2
    /\ result.kind = "error"

(***************************************************************************)
(* Properties of the risk functions over several tickers (specification    *)
(* SpecMarket).                                                            *)
(***************************************************************************)
\* The tickers the returned call was asked about.
Requested ==
    IF args.op = "calculate_beta_alpha" THEN { args.ticker, args.benchmark }
    ELSE IF args.op = "correlation_matrix"
    THEN { args.tickers[i] : i \in 1..Len(args.tickers) }
    ELSE { Primary }

\* The adapter has no price history for the ticker.
EmptyFetch(t) == Quote(adapter, t).closes = << >>

\* C23: when the data fetch of a requested ticker or benchmark is empty, the
\* risk function returns an error object whose message names the failing
\* ticker, and no result computed from the remaining tickers.
C23_EmptyFetchIsAnError ==
    (pc = "returned" /\ \E t \in Requested : EmptyFetch(t)) =>
        /\ result.kind = "error"
        /\ result.names

\* correlation_matrix has returned from a request of two or more tickers
\* (a ticker may be listed twice), each of which has returns.
CorrelationOfTickersWithData ==
    /\ pc = "returned"
    /\ args.op = "correlation_matrix"
    /\ Len(args.tickers) >= 2
    /\ \A t \in Requested : get_returns(Quote(adapter, t)) # << >>

\* C26: for two or more requested tickers with data, the same ticker listed
\* twice included, correlation_matrix returns a matrix with 1.0 on the
\* diagonal, and the highest- and the lowest-correlated pair of distinct
\* tickers.
C26_DiagonalAndExtremePairs ==
    CorrelationOfTickersWithData =>
        /\ result.kind = "correlation"
        /\ \A t \in Requested : result.matrix[t][t] = One
        /\ \A i \in 1..Len(result.all_pairs) :
               LET p == result.all_pairs[i]
               IN  /\ p.pair[1] # p.pair[2]
                   /\ IsNum(p.correlation)
                   /\ RLe(p.correlation, result.highest_correlation.correlation)
                   /\ RLe(result.lowest_correlation.correlation, p.correlation)

(***************************************************************************)
(* Properties of the boundary of the public functions (specification       *)
(* SpecBoundary).                                                          *)
(***************************************************************************)
\* A fetch the returned call performs raises: every function of DCFModel
\* reads stock.info and the statements, every function of RiskAnalytics the
\* price history, and calculate_var (so get_risk_summary) stock.info.
FetchRaised ==
    IF AnswersDcf THEN Fault(adapter) \in { "info", "statements" }
    ELSE \/ Fault(adapter) = "history"
         \/ /\ Fault(adapter) = "info"
            /\ args.op \in { "calculate_var", "get_risk_summary" }

\* The result tells of a failure: an error dictionary, the error text of a
\* summary or, of get_returns, the empty Series.
ErrorShaped ==
    \/ result.kind = "error"
    \/ result.kind = "text" /\ result.error
    \/ result.kind = "series" /\ result.values = << >>

BetaReturned == pc = "returned" /\ args.op = "calculate_beta_alpha"

\* The days of which the adapter has a return of ticker t: every day of its
\* history but the first.
ReturnDays(t) ==
    LET q == Quote(adapter, t)
    IN  (q.first + 1)..(q.first + Len(q.closes) - 1)

\* The return of ticker t on day d of its history.
ReturnOn(t, d) ==
    LET q == Quote(adapter, t)
    IN  RSub(R(q.closes[d - q.first + 1], q.closes[d - q.first]), One)

\* The days both the stock and the benchmark have a return of.
AlignedDays == ReturnDays(args.ticker) \cap ReturnDays(args.benchmark)

\* The returns of ticker t on the aligned days, in the order of the days.
AlignedReturns(t) ==
    LET from == CHOOSE d \in AlignedDays : \A e \in AlignedDays : d <= e
    IN  [i \in 1..Cardinality(AlignedDays) |-> ReturnOn(t, from + i - 1)]

\* C25: calculate_beta_alpha returns an error when fewer than 30 aligned
\* pairs of returns remain; with 30 or more it returns beta = Cov(stock,
\* market) / Var(market) over exactly the aligned pairs (rounded to 2
\* decimals), and beta = 1 when the market variance is 0.
C25_BetaOverAlignedPairs ==
    BetaReturned =>
        IF Cardinality(AlignedDays) < 30 THEN result.kind = "error"
        ELSE LET stock == AlignedReturns(args.ticker)
                 market == AlignedReturns(args.benchmark)
             IN  /\ result.kind = "beta"
                 /\ result.beta =
                        IF Variance(market) = Zero THEN One
                        ELSE RoundTo(RDiv(Cov(stock, market), Variance(market)), 2)

\* C25 witness: exactly 30 aligned pairs remain of two longer histories that
\* start on different days, and the beta returned is neither 0 nor 1.
C25_ThirtyAlignedPairs ==
    /\ BetaReturned
    /\ Cardinality(AlignedDays) = 30
    /\ Cardinality(ReturnDays(args.ticker)) > 30
    /\ Quote(adapter, args.benchmark).first > 1
    /\ result.kind = "beta"
    /\ result.beta \notin { Zero, One }

(***************************************************************************)
(* Properties of the overrides (specification SpecOverrides).              *)
(***************************************************************************)
\* The value a calculation is to use for an argument: the argument when one
\* was passed, the default when it was omitted.
Supplied(argument, default) == IF argument = NoneV THEN default ELSE argument

\* calculate_wacc has returned its components.
WaccComputed ==
    pc = "returned" /\ args.op = "calculate_wacc" /\ result.kind = "wacc"

\* calculate_dcf has returned a valuation.
DcfComputed ==
    pc = "returned" /\ args.op = "calculate_dcf" /\ result.kind = "valuation"

\* calculate_sharpe_ratio has returned its metrics.
SharpeComputed ==
    pc = "returned" /\ args.op = "calculate_sharpe_ratio"
    /\ result.kind = "sharpe"

WaccUsesItsOverrides ==
    WaccComputed =>
        /\ frame.rf = Supplied(args.risk_free_rate, RISK_FREE_RATE)
        /\ frame.mrp = Supplied(args.market_risk_premium, MARKET_RISK_PREMIUM)
        /\ frame.tax = Supplied(args.tax_rate, DEFAULT_TAX_RATE)

DcfUsesItsOverrides ==
    DcfComputed =>
        /\ frame.wacc = Supplied(args.wacc_override,
                                 frame.wacc_data.wacc_decimal)
        /\ frame.terminal_growth =
               Supplied(args.terminal_growth_rate, DEFAULT_TERMINAL_GROWTH)

SharpeUsesItsOverride ==
    SharpeComputed =>
        frame.rf = Supplied(args.risk_free_rate, RiskAnalytics_RISK_FREE_RATE)

\* C28: an explicitly supplied override, 0 included, is the value the
\* calculation uses in calculate_wacc, calculate_dcf and
\* calculate_sharpe_ratio; the default applies only to an omitted argument.
C28_SuppliedOverrideIsUsed ==
    /\ WaccUsesItsOverrides
    /\ DcfUsesItsOverrides
    /\ SharpeUsesItsOverride

(***************************************************************************)
(* Properties of WatchlistManager (specification SpecStorage).             *)
(***************************************************************************)
\* C29: after any sequence of WatchlistManager operations every row of
\* watchlist_items refers to an existing watchlist: delete_watchlist takes
\* the items of the watchlist with it, and add_to_watchlist with the id of
\* no watchlist (the default id 1 after the default watchlist was deleted
\* included) creates no item.
C29_EveryItemHasItsWatchlist ==
    \A item \in database.watchlist_items :
        \E w \in database.watchlists : w.id = item.watchlist_id

(***************************************************************************)
(* Properties of the strategies (specification SpecStrategies).            *)
(***************************************************************************)
\* self.order stays set while an order the strategy created is pending.
OrderFieldHeldWhilePending ==
    Pending(cerebro) # { } => cerebro.order # NoOrder

\* At most one order is outstanding.
OneOrderOutstanding == Cardinality(Pending(cerebro)) <= 1

\* C30: in each of the four strategies self.order stays set from the
\* creation of an order until a notification with a terminal status has
\* arrived, so that next() creates no order while an earlier one is pending
\* and at most one order is outstanding at any time.
C30_OneOrderAtATime ==
    /\ OrderFieldHeldWhilePending
    /\ OneOrderOutstanding

(***************************************************************************)
(* Properties of calculate_wacc (specification SpecWacc).                  *)
(***************************************************************************)
WaccReturned == pc = "returned" /\ args.op = "calculate_wacc"

\* C4: for every market cap and total debt of the adapter (zero or missing
\* included) calculate_wacc's equity weight and debt weight sum to 1, the
\* returned percentages sum to 100, and the weights are 1 and 0 (100 and 0)
\* when market cap + total debt = 0.
C4_WeightsSumToOne ==
    WaccReturned
    => /\ RAdd(frame.equity_weight, frame.debt_weight) = One
       /\ result.equity_weight = Pct(frame.equity_weight, 2)
       /\ result.debt_weight = Pct(frame.debt_weight, 2)
       /\ RAdd(result.equity_weight, result.debt_weight) = I(100)
       /\ RAdd(frame.market_cap, frame.total_debt) = Zero
             => /\ frame.equity_weight = One
                /\ frame.debt_weight = Zero
                /\ result.equity_weight = I(100)
                /\ result.debt_weight = Zero

\* C4 witness: calculate_wacc has returned for an adapter whose market cap is
\* missing and whose total debt is zero.
C4_NoCapital ==
    /\ WaccReturned
    /\ adapter.info.marketCap \in { Absent, NoneV }
    /\ RAdd(frame.market_cap, frame.total_debt) = Zero
    /\ result.equity_weight = I(100)

C13_CostOfDebtIsInterestOverDebt ==
    WaccReturned
    => frame.cost_of_debt =
          IF /\ adapter.income # << >>
             /\ adapter.interest # 0
             /\ Positive(frame.total_debt)
          THEN RDiv(I(adapter.interest), frame.total_debt)
          ELSE RAdd(frame.rf, R(2, 100))

\* C13 (amended): the cost of debt is the absolute value of the interest
\* expense / totalDebt when the interest expense is nonzero and total debt
\* > 0, and riskFreeRate + 0.02 otherwise.
C13_CostOfDebtIsAbsInterestOverDebt ==
    WaccReturned
    => /\ frame.cost_of_debt =
             IF /\ adapter.income # << >>
                /\ adapter.interest # 0
                /\ Positive(frame.total_debt)
             THEN RDiv(I(IF adapter.interest < 0 THEN -adapter.interest
                         ELSE adapter.interest), frame.total_debt)
             ELSE RAdd(frame.rf, R(2, 100))
       /\ result.cost_of_debt = RoundTo(RMul(frame.cost_of_debt, I(100)), 2)

\* C13 witness: calculate_wacc has returned for an adapter with debt and a
\* negative interest expense.
C13_NegativeInterest ==
    /\ WaccReturned
    /\ adapter.income # << >>
    /\ adapter.interest < 0
    /\ Positive(frame.total_debt)
    /\ result.cost_of_debt = I(10)

(***************************************************************************)
(* Properties of project_financials (specification SpecProject).           *)
(***************************************************************************)
\* project_financials has returned a projection.
Projected ==
    /\ pc = "returned"
    /\ args.op = "project_financials"
    /\ result.kind = "projections"

\* The positive revenues of the history project_financials read.
PositiveRevenues == SelectSeq(frame.historical.revenue, Positive)

\* C5 (as claimed): without growth rates and with fewer than 2 positive
\* historical revenues, project_financials takes a base growth of 10%, so
\* the growth of projection year 1 is 10%.
C5_DefaultBaseGrowthTenPercent ==
    (/\ Projected
     /\ ~args.revenue_growth_rates.given
     /\ args.years >= 1
     /\ Len(PositiveRevenues) < 2)
    => /\ frame.growth[1] = R(10, 100)
       /\ result.revenue_growth[1] = I(10)

\* min(base * m_k, cap_k) for the multipliers and caps of the schedule.
ScheduledGrowth(base, k) ==
    RMin(RMul(base, << One, R(85, 100), R(70, 100), R(55, 100), R(40, 100) >>[k]),
         << R(30, 100), R(25, 100), R(20, 100), R(15, 100), R(10, 100) >>[k])

\* The annual growth from `older` to `newer` over `periods` years, as the
\* history holds it: a percentage of 2 decimals.
GrowthBetween(newer, older, periods) ==
    RDiv(RoundTo(RMul(RSub(Root(RDiv(newer, older), periods), One), I(100)), 2),
         I(100))

\* C6 (as claimed): without growth rates, the base growth is the growth
\* between the two most recent positive historical revenues, and the growth
\* of projection year k = 1..5 is min(base * m_k, cap_k).
C6_BaseFromTwoMostRecent ==
    (/\ Projected
     /\ ~args.revenue_growth_rates.given
     /\ Len(PositiveRevenues) >= 2)
    => \A k \in 1..Min(args.years, 5) :
          frame.growth[k] =
              ScheduledGrowth(GrowthBetween(PositiveRevenues[1],
                                            PositiveRevenues[2], 1), k)

\* C6 (amended): without growth rates, the base growth is the compound annual
\* growth from the oldest to the most recent positive revenue of the last 3
\* fiscal years (over the number of positive figures less one, as a
\* percentage of 2 decimals), and the growth of projection year k = 1..5 is
\* min(base * m_k, cap_k).
C6_BaseFromOldestToMostRecent ==
    (/\ Projected
     /\ ~args.revenue_growth_rates.given
     /\ Len(PositiveRevenues) >= 2)
    => \A k \in 1..Min(args.years, 5) :
          frame.growth[k] =
              ScheduledGrowth(
                  GrowthBetween(PositiveRevenues[1],
                                PositiveRevenues[Len(PositiveRevenues)],
                                Len(PositiveRevenues) - 1), k)

\* C6 witness: a 5-year projection on the default schedule from three
\* positive revenues of which the two older differ from the latest.
C6_FiveYearsFromThreeRevenues ==
    /\ Projected
    /\ ~args.revenue_growth_rates.given
    /\ args.years >= 5
    /\ Len(PositiveRevenues) = 3
    /\ PositiveRevenues[1] = PositiveRevenues[2]
    /\ PositiveRevenues[1] # PositiveRevenues[3]

\* The historical years in which both free cash flow and operating income
\* are nonzero.
YearsWithBoth ==
    { j \in 1..Len(frame.historical.revenue) :
         /\ frame.historical.free_cash_flow[j] # Zero
         /\ frame.historical.operating_income[j] # Zero }

\* C7 (as claimed): the conversion ratio is FCF / operating income of the
\* most recent historical year in which both are nonzero, searching past the
\* latest year, and 0.80 only when no historical year has both.
C7_RatioFromMostRecentYearWithBoth ==
    (Projected /\ args.years >= 1)
    => frame.fcf_to_oi_ratio =
          IF YearsWithBoth = { } THEN R(80, 100)
          ELSE LET j == CHOOSE j \in YearsWithBoth :
                            \A i \in YearsWithBoth : j <= i
               IN  RDiv(frame.historical.free_cash_flow[j],
                        frame.historical.operating_income[j])

\* C7 (amended): the conversion ratio is FCF / operating income of the latest
\* historical year when both are nonzero in that year, and 0.80 otherwise;
\* no earlier year is looked at.
C7_RatioFromLatestYear ==
    Projected
    => /\ frame.fcf_to_oi_ratio =
             IF 1 \in YearsWithBoth
             THEN RDiv(frame.historical.free_cash_flow[1],
                       frame.historical.operating_income[1])
             ELSE R(80, 100)
       /\ \A k \in 1..args.years :
             frame.projected_fcf[k] =
                 RMul(RMul(frame.projected_revenue[k], frame.op_margin[k]),
                      frame.fcf_to_oi_ratio)

\* C7 witness: a projection from a history whose latest year lacks one of
\* the two figures while an earlier year has both.
C7_LatestYearIncomplete ==
    /\ Projected
    /\ args.years >= 1
    /\ 1 \notin YearsWithBoth
    /\ YearsWithBoth # { }
    /\ frame.fcf_to_oi_ratio = R(80, 100)

\* The revenue that projection year k grows from.
PriorRevenue(k) ==
    IF k = 1 THEN result.base_revenue ELSE result.revenue[k - 1]

\* C8 (as claimed): in a returned projection, each year's revenue is the
\* prior year's revenue (the base revenue for year 1) times 1 + that year's
\* growth rate, and each year's FCF is that year's revenue times its
\* operating margin times the conversion ratio.
C8_ReturnedRecurrenceExact ==
    Projected
    => \A k \in 1..args.years :
          /\ result.revenue[k] =
                 RMul(PriorRevenue(k),
                      RAdd(One, RDiv(result.revenue_growth[k], I(100))))
          /\ result.free_cash_flow[k] =
                 RMul(RMul(result.revenue[k],
                           RDiv(result.operating_margin[k], I(100))),
                      frame.fcf_to_oi_ratio)

\* C8 (amended): the recurrences hold exactly of the unrounded revenue and
\* FCF the loop carries, with the growth rates and margins it uses; the
\* returned revenue and FCF are these values rounded to the whole currency
\* unit, and the returned growth and margin are percentages rounded to one
\* decimal.
C8_RecurrenceBeforeRounding ==
    Projected
    => /\ result.base_revenue = frame.last_revenue
       /\ \A k \in 1..args.years :
             /\ frame.projected_revenue[k] =
                    RMul(IF k = 1 THEN frame.last_revenue
                         ELSE frame.projected_revenue[k - 1],
                         RAdd(One, frame.growth[k]))
             /\ frame.projected_fcf[k] =
                    RMul(RMul(frame.projected_revenue[k], frame.op_margin[k]),
                         frame.fcf_to_oi_ratio)
             /\ result.revenue[k] = RoundTo(frame.projected_revenue[k], 7)
             /\ result.free_cash_flow[k] = RoundTo(frame.projected_fcf[k], 7)
             /\ result.revenue_growth[k] = RoundTo(RMul(frame.growth[k], I(100)), 1)
             /\ result.operating_margin[k] =
                    RoundTo(RMul(frame.op_margin[k], I(100)), 1)

\* C8 witness: a projection of 2 years or more in which a returned growth
\* percentage is not the growth rate the year was projected with.
C8_GrowthRoundedAway ==
    /\ Projected
    /\ args.years >= 2
    /\ \E k \in 2..args.years :
          /\ result.revenue_growth[k] # RMul(frame.growth[k], I(100))
          /\ frame.projected_revenue[k] # frame.projected_revenue[k - 1]

\* C9: without margin targets, the margin of projection year k is the latest
\* historical operating margin less (k - 1) points when that margin is
\* strictly greater than 30%, and plus (k - 1) half points otherwise.
C9_MarginCompressionOrExpansion ==
    (Projected /\ ~args.operating_margin_targets.given)
    => /\ frame.last_op_margin =
              RDiv(frame.historical.operating_margin[1], I(100))
       /\ \A k \in 1..args.years :
             /\ frame.op_margin[k] =
                    IF frame.last_op_margin[1] * 100 > 30 * frame.last_op_margin[2]
                    THEN RSub(frame.last_op_margin, R(k - 1, 100))
                    ELSE RAdd(frame.last_op_margin, R(5 * (k - 1), 1000))
             /\ result.operating_margin[k] =
                    RoundTo(RMul(frame.op_margin[k], I(100)), 1)

\* C9 witness: a projection of 2 years or more on default margins from a
\* latest historical margin of exactly 30%, which is expanded.
C9_ExactlyThirtyPercent ==
    /\ Projected
    /\ ~args.operating_margin_targets.given
    /\ args.years >= 2
    /\ frame.last_op_margin = R(30, 100)
    /\ frame.op_margin[2] = R(305, 1000)

====
